---- MODULE Spec2Model ----
(***************************************************************************)
(* Layout and composition engine of exgui's nanovg renderer                *)
(* (render_nanovg/src/lib.rs).                                             *)
(*                                                                         *)
(* A shape tree is a nested record; a node is named by its path, the       *)
(* sequence of child indexes leading to it from the root (<<>>).           *)
(* Real numbers are integers: lengths in 1/Unit of a source unit,          *)
(* transparency in hundredths (One stands for 1.0), alpha in units of      *)
(* 1/(One*One).  Unit is chosen so that the halves and the hundredths the  *)
(* layout takes of the lengths drawn by Init are whole numbers.            *)
(***************************************************************************)
EXTENDS Integers, Sequences, FiniteSets, TLC

VARIABLES
    width,      \* NanovgRender.width
    height,     \* NanovgRender.height
    declared,   \* the shape tree as the producer built it
    tree,       \* the shape tree, mutated in place by the layout pass
    renders,    \* number of render calls that ran their frame
    passes,     \* number of layout passes (recalc_composite on the root) made
    ltrace,     \* calls of recalc_composite in the last layout pass, in return order
    rtrace,     \* calls of render_composite in the last render call, in call order
    draws,      \* draw instructions the last render call handed to the frame
    events,     \* the last render call: nodes resolved and nodes drawn, in order
    error,      \* Option of the panic that ended the last render call
    child_bounds,   \* calc_inner_bound: the bounds pushed so far
    inner_bound,    \* calc_inner_bound: Option of the bound it returned
    path_done,      \* path interpreter: the commands of path.cmd interpreted so far
    path_prev,      \* path interpreter: last_xy, bez_ctrls and calls before the last command
    path_state,     \* path interpreter: last_xy, bez_ctrls and the calls made so far
    context,    \* NanovgRender.context: None, or Some of the init call that built it
    inits,      \* number of init calls made
    refused,    \* number of render calls that found no context
    result,     \* the last call on the NanovgRender and what it returned
    fonts,      \* names of the fonts created in the context
    device_pixel_ratio, \* NanovgRender.device_pixel_ratio
    configs,    \* number of set_dimensions, load_font and with_.. calls made
    absolute_in_place,  \* the nanovg build: Transform::absolute takes &mut self
    comp,       \* the Comp: model, props, view_node, defaults, resolver, drawer, inputer
    comp_calls, \* number of calls made on the Comp
    comp_last   \* the last call on the Comp: what it found and what it returned

nvg_vars == <<context, inits, refused, result, fonts, device_pixel_ratio, configs,
              absolute_in_place>>
comp_vars == <<comp, comp_calls, comp_last>>

vars == <<width, height, declared, tree, renders, passes, ltrace, rtrace, draws,
          events, error, child_bounds, inner_bound, path_done, path_prev, path_state,
          nvg_vars, comp_vars>>

\* ---------------------------------------------------------------- bounds
MaxRenders == 2
MaxChildBounds == 3
MaxCmds == 3
MaxInits == 2
MaxRefused == 1
MaxConfigs == 2
MaxCompCalls == 4

\* 1.0 in hundredths
One == 100

\* Lengths are f32 in the source. Here a length is a whole number of 1/Unit of a
\* source unit, so the halvings and the hundredths the layout takes of the
\* lengths below are exact. Matrix entries a..d are ratios and stay unscaled, the
\* translation entries are lengths. Path command points and stroke widths are
\* handed to the canvas as they are and stay in source units.
Unit == 1600

\* ---------------------------------------------------------------- Option<T>
None == <<>>
Some(v) == <<v>>
is_some(o) == o # <<>>
unwrap(o) == o[1]
\* Option::or
or(a, b) == IF is_some(a) THEN a ELSE b

Min(a, b) == IF a < b THEN a ELSE b
Max(a, b) == IF a > b THEN a ELSE b

\* ---------------------------------------------------------------- core values
\* A dimension: the resolved scalar (field 0 of the source's value) and its kind.
\* Px(v): the scalar v of the source.
Px(v) == [kind |-> "Px", val |-> v * Unit, pct |-> 0]
Pct(p) == [kind |-> "Pct", val |-> 0, pct |-> p]
Auto == [kind |-> "Auto", val |-> 0, pct |-> 0]

val(d) == d.val

\* set_by_pct returns true exactly when the value was a percent
is_pct(d) == d.kind = "Pct"

\* set_by_pct: a Percent(p) becomes the resolved p/100 * base; its tag is consumed
set_by_pct(d, base) ==
    IF d.kind = "Pct"
    THEN [kind |-> "Px", val |-> (d.pct * base) \div 100, pct |-> d.pct]
    ELSE d

\* set_by_auto: an Auto value becomes the given scalar and its tag is consumed,
\* anything else is left alone
set_by_auto(d, v) ==
    IF d.kind = "Auto" THEN [kind |-> "Px", val |-> v, pct |-> d.pct] ELSE d

ZeroPadding == [left |-> Px(0), right |-> Px(0), top |-> Px(0), bottom |-> Px(0)]

left_and_right(p) == val(p.left) + val(p.right)
top_and_bottom(p) == val(p.top) + val(p.bottom)

\* TransformMatrix <<a, b, c, d, e, f>>: (x, y) goes to (a*x + c*y + e, b*x + d*y + f)
Identity == <<1, 0, 0, 1, 0, 0>>
\* TransformMatrix with the entries of the source, translation in source units.
Matrix(a, b, c, d, tx, ty) == <<a, b, c, d, tx * Unit, ty * Unit>>
Translation(tx, ty) == Matrix(1, 0, 0, 1, tx, ty)

\* parent * local: the local matrix applied first, then the parent's
matrix_mul(p, l) ==
    <<p[1] * l[1] + p[3] * l[2], p[2] * l[1] + p[4] * l[2],
      p[1] * l[3] + p[3] * l[4], p[2] * l[3] + p[4] * l[4],
      p[1] * l[5] + p[3] * l[6] + p[5], p[2] * l[5] + p[4] * l[6] + p[6]>>

translate_add(m, tx, ty) == [m EXCEPT ![5] = @ + tx, ![6] = @ + ty]

\* matrix * point
matrix_mul_point(m, p) == <<m[1] * p[1] + m[3] * p[2] + m[5], m[2] * p[1] + m[4] * p[2] + m[6]>>

\* Transform: the local matrix if any, the absolute flag, the cached global matrix
NoTransform == [local |-> None, absolute |-> FALSE, calculated |-> None]
Local(m) == [local |-> Some(m), absolute |-> FALSE, calculated |-> None]
Absolute(m) == [local |-> Some(m), absolute |-> TRUE, calculated |-> None]

matrix(transform) == IF is_some(transform.local) THEN unwrap(transform.local) ELSE Identity
is_absolute(transform) == transform.absolute
is_not_exist(transform) == ~is_some(transform.local) /\ ~transform.absolute
calculated_matrix(transform) == transform.calculated

\* Transform::calculate_global: the matrix it returns (and caches)
calculate_global(transform, parent_global) ==
    IF transform.absolute THEN matrix(transform)
    ELSE IF is_not_exist(transform) THEN parent_global
    ELSE matrix_mul(parent_global, matrix(transform))

ClipNone ==
    [kind |-> "None", x |-> Px(0), y |-> Px(0), width |-> Px(0), height |-> Px(0),
     transform |-> NoTransform]
Scissor(x, y, w, h) ==
    [kind |-> "Scissor", x |-> x, y |-> y, width |-> w, height |-> h,
     transform |-> NoTransform]

clip_is_none(c) == c.kind = "None"
\* Clip::or
clip_or(c, other) == IF clip_is_none(c) THEN other ELSE c

\* ---------------------------------------------------------------- BoundingBox
BoundingBox(x0, y0, x1, y1) == [min_x |-> x0, min_y |-> y0, max_x |-> x1, max_y |-> y1]
BoundingBoxDefault == BoundingBox(0, 0, 0, 0)
\* The BoundingBox with the given corners in source units.
Box(min_x, min_y, max_x, max_y) ==
    BoundingBox(min_x * Unit, min_y * Unit, max_x * Unit, max_y * Unit)

bb_width(b) == b.max_x - b.min_x
bb_height(b) == b.max_y - b.min_y

\* ---------------------------------------------------------------- ShapeDefaults
ShapeDefaultsDefault ==
    [transparency |-> 0, fill |-> None, stroke |-> None, clip |-> ClipNone]

\* ---------------------------------------------------------------- shape nodes
\* kind "None" is a composite whose shape() is None.
EmptyNode ==
    [kind |-> "None",
     x |-> Px(0), y |-> Px(0), width |-> Px(0), height |-> Px(0),
     cx |-> Px(0), cy |-> Px(0), r |-> Px(0),
     padding |-> ZeroPadding,
     fill |-> None, stroke |-> None, clip |-> ClipNone,
     transform |-> NoTransform,
     transparency |-> 0,
     group_transparency |-> None,
     cmd |-> <<>>,
     font_name |-> "", font_size |-> Px(0), content |-> <<>>,
     metrics |-> None, glyph_positions |-> <<>>,
     children |-> <<>>]

Fill(paint) == [paint |-> paint]
Stroke(paint, w) == [paint |-> paint, width |-> w]

\* ---------------------------------------------------------------- composition pass
\* NanovgTransform::new(): the identity, relative.
NanovgTransformNew == [absolute |-> FALSE, matrix |-> Identity]

\* nanovg_transform.absolute(); what the statement leaves in the variable.  The
\* nanovg crate is not part of the repository and the statement compiles against
\* both signatures: absolute(&mut self) sets the flag of the variable, while
\* absolute(mut self) -> Self sets it on a copy the statement drops.
nanovg_absolute(t) == IF absolute_in_place THEN [t EXCEPT !.absolute = TRUE] ELSE t

\* The transform handed to nanovg: None for a transform that does not exist, else
\* a new transform with the cached global matrix (the local one without a cache).
nanovg_transform(transform) ==
    IF is_not_exist(transform) THEN None
    ELSE Some([(IF is_absolute(transform) THEN nanovg_absolute(NanovgTransformNew)
                ELSE NanovgTransformNew)
               EXCEPT !.matrix = IF is_some(calculated_matrix(transform))
                                 THEN unwrap(calculated_matrix(transform))
                                 ELSE matrix(transform)])

\* The clip handed to nanovg: the resolved scalars of the scissor.
nanovg_clip(clip) ==
    IF clip.kind = "Scissor"
    THEN [kind |-> "Scissor", x |-> val(clip.x), y |-> val(clip.y),
          width |-> val(clip.width), height |-> val(clip.height),
          transform |-> nanovg_transform(clip.transform)]
    ELSE [kind |-> "None", x |-> 0, y |-> 0, width |-> 0, height |-> 0,
          transform |-> None]

\* Variant of path_alpha that leaves the defaults' transparency out.
path_alpha_own_only(transparency, defaults) == (One - transparency) * One

\* alpha of PathOptions
path_alpha(transparency, defaults) ==
    (One - transparency) * (One - defaults.transparency)

\* Variant of path_options that prefers the clip of the defaults.
path_options_defaults_clip_first(transparency, clip, transform, defaults) ==
    [alpha |-> path_alpha(transparency, defaults),
     clip |-> nanovg_clip(clip_or(defaults.clip, clip)),
     transform |-> nanovg_transform(transform)]

path_options(transparency, clip, transform, defaults) ==
    [alpha |-> path_alpha(transparency, defaults),
     clip |-> nanovg_clip(clip_or(clip, defaults.clip)),
     transform |-> nanovg_transform(transform)]

\* shape.fill.as_ref().or(defaults.fill.as_ref())
effective_fill(shape, defaults) == or(shape.fill, defaults.fill)

\* shape.stroke.as_ref().or(defaults.stroke.as_ref())
effective_stroke(shape, defaults) == or(shape.stroke, defaults.stroke)

\* ---- the path command interpreter
\* PathCommand: the kind and its point (a lone x or y sits in its place of the pair).
Move(xy) == [kind |-> "Move", xy |-> xy]
MoveRel(xy) == [kind |-> "MoveRel", xy |-> xy]
Line(xy) == [kind |-> "Line", xy |-> xy]
LineRel(xy) == [kind |-> "LineRel", xy |-> xy]
LineAlonX(x) == [kind |-> "LineAlonX", xy |-> <<x, 0>>]
LineAlonXRel(x) == [kind |-> "LineAlonXRel", xy |-> <<x, 0>>]
LineAlonY(y) == [kind |-> "LineAlonY", xy |-> <<0, y>>]
LineAlonYRel(y) == [kind |-> "LineAlonYRel", xy |-> <<0, y>>]
Close == [kind |-> "Close", xy |-> <<0, 0>>]
BezCtrl(xy) == [kind |-> "BezCtrl", xy |-> xy]
BezCtrlRel(xy) == [kind |-> "BezCtrlRel", xy |-> xy]
QuadBezTo(xy) == [kind |-> "QuadBezTo", xy |-> xy]
QuadBezToRel(xy) == [kind |-> "QuadBezToRel", xy |-> xy]
CubBezTo(xy) == [kind |-> "CubBezTo", xy |-> xy]
CubBezToRel(xy) == [kind |-> "CubBezToRel", xy |-> xy]
\* a command the interpreter has no arm for
OtherCmd(xy) == [kind |-> "Other", xy |-> xy]

\* The calls made on the nanovg path.
move_to(xy) == [op |-> "move_to", to |-> xy, ctrl1 |-> <<>>, ctrl2 |-> <<>>]
line_to(xy) == [op |-> "line_to", to |-> xy, ctrl1 |-> <<>>, ctrl2 |-> <<>>]
close == [op |-> "close", to |-> <<>>, ctrl1 |-> <<>>, ctrl2 |-> <<>>]
quad_bezier_to(xy, ctrl) ==
    [op |-> "quad_bezier_to", to |-> xy, ctrl1 |-> ctrl, ctrl2 |-> <<>>]
cubic_bezier_to(xy, ctrl1, ctrl2) ==
    [op |-> "cubic_bezier_to", to |-> xy, ctrl1 |-> ctrl1, ctrl2 |-> ctrl2]

\* last_xy, bez_ctrls and the calls made so far; panic once a command had no arm
PathStateInit ==
    [last_xy |-> <<0, 0>>, bez_ctrls |-> <<(<<0, 0>>), (<<0, 0>>)>>,
     segments |-> <<>>, panic |-> FALSE]

add_xy(a, b) == <<a[1] + b[1], a[2] + b[2]>>

\* Variant of push_bez_ctrl that stores the new point in the first slot.
push_bez_ctrl_front(st, p) == [st EXCEPT !.bez_ctrls = <<p, st.bez_ctrls[1]>>]

\* bez_ctrls = [bez_ctrls[1], p]
push_bez_ctrl(st, p) == [st EXCEPT !.bez_ctrls = <<st.bez_ctrls[2], p>>]

\* Variant of cub_bez_to that hands the control points over in reverse.
cub_bez_to_swapped(st, xy) ==
    [st EXCEPT !.last_xy = xy,
               !.segments = Append(@, cubic_bezier_to(xy, st.bez_ctrls[2], st.bez_ctrls[1]))]

\* last_xy = xy; cubic_bezier_to(last_xy, bez_ctrls[0], bez_ctrls[1])
cub_bez_to(st, xy) ==
    [st EXCEPT !.last_xy = xy,
               !.segments = Append(@, cubic_bezier_to(xy, st.bez_ctrls[1], st.bez_ctrls[2]))]

quad_bez_to(st, xy) ==
    [st EXCEPT !.last_xy = xy,
               !.segments = Append(@, quad_bezier_to(xy, st.bez_ctrls[2]))]

move(st, xy) == [st EXCEPT !.last_xy = xy, !.segments = Append(@, move_to(xy))]

\* Variant of line that draws to the point and leaves last_xy behind.
line_cursor_kept(st, xy) == [st EXCEPT !.segments = Append(@, line_to(xy))]

line(st, xy) == [st EXCEPT !.last_xy = xy, !.segments = Append(@, line_to(xy))]

\* Variant of unsupported_cmd that steps over the command.
unsupported_cmd_skipped(st) == st

\* _ => panic!("Not impl rendering cmd ..")
unsupported_cmd(st) == [st EXCEPT !.panic = TRUE]

\* Variant of path_cmd in which a relative command takes its argument for the point.
path_cmd_rel_from_origin(st, cmd) ==
    CASE cmd.kind \in {"Move", "MoveRel"} -> move(st, cmd.xy)
      [] cmd.kind \in {"Line", "LineRel"} -> line(st, cmd.xy)
      [] cmd.kind \in {"LineAlonX", "LineAlonXRel"} -> line(st, <<cmd.xy[1], st.last_xy[2]>>)
      [] cmd.kind \in {"LineAlonY", "LineAlonYRel"} -> line(st, <<st.last_xy[1], cmd.xy[2]>>)
      [] cmd.kind = "Close" -> [st EXCEPT !.segments = Append(@, close)]
      [] cmd.kind \in {"BezCtrl", "BezCtrlRel"} -> push_bez_ctrl(st, cmd.xy)
      [] cmd.kind \in {"QuadBezTo", "QuadBezToRel"} -> quad_bez_to(st, cmd.xy)
      [] cmd.kind \in {"CubBezTo", "CubBezToRel"} -> cub_bez_to(st, cmd.xy)
      [] OTHER -> unsupported_cmd(st)

\* One turn of the loop over path.cmd.
path_cmd(st, cmd) ==
    CASE cmd.kind = "Move" -> move(st, cmd.xy)
      [] cmd.kind = "MoveRel" -> move(st, add_xy(st.last_xy, cmd.xy))
      [] cmd.kind = "Line" -> line(st, cmd.xy)
      [] cmd.kind = "LineRel" -> line(st, add_xy(st.last_xy, cmd.xy))
      [] cmd.kind = "LineAlonX" -> line(st, <<cmd.xy[1], st.last_xy[2]>>)
      [] cmd.kind = "LineAlonXRel" -> line(st, <<st.last_xy[1] + cmd.xy[1], st.last_xy[2]>>)
      [] cmd.kind = "LineAlonY" -> line(st, <<st.last_xy[1], cmd.xy[2]>>)
      [] cmd.kind = "LineAlonYRel" -> line(st, <<st.last_xy[1], st.last_xy[2] + cmd.xy[2]>>)
      [] cmd.kind = "Close" -> [st EXCEPT !.segments = Append(@, close)]
      [] cmd.kind = "BezCtrl" -> push_bez_ctrl(st, cmd.xy)
      [] cmd.kind = "BezCtrlRel" -> push_bez_ctrl(st, add_xy(st.last_xy, cmd.xy))
      [] cmd.kind = "QuadBezTo" -> quad_bez_to(st, cmd.xy)
      [] cmd.kind = "QuadBezToRel" -> quad_bez_to(st, add_xy(st.last_xy, cmd.xy))
      [] cmd.kind = "CubBezTo" -> cub_bez_to(st, cmd.xy)
      [] cmd.kind = "CubBezToRel" -> cub_bez_to(st, add_xy(st.last_xy, cmd.xy))
      [] OTHER -> unsupported_cmd(st)

\* for cmd in path.cmd.iter(): the loop ends at the first panic
RECURSIVE path_cmds(_, _, _)
path_cmds(cmd, i, st) ==
    IF i > Len(cmd) \/ st.panic THEN st
    ELSE path_cmds(cmd, i + 1, path_cmd(st, cmd[i]))

\* The geometry calls made on the nanovg path: path.rect(..), path.circle(..), or
\* the segments of a Path.
shape_geometry(shape) ==
    CASE shape.kind = "Rect" ->
            <<val(shape.x), val(shape.y), val(shape.width), val(shape.height)>>
      [] shape.kind = "Circle" ->
            <<val(shape.cx), val(shape.cy), val(shape.r)>>
      [] shape.kind = "Path" -> path_cmds(shape.cmd, 1, PathStateInit).segments
      [] OTHER -> <<>>

\* The calls made on the nanovg path inside the closure handed to frame.path.
path_call(op, args) == [op |-> op, args |-> args]

\* path.rect(..), path.circle(..), or one call per segment of a Path
geometry_calls(shape) ==
    CASE shape.kind = "Rect" ->
            <<path_call("rect", <<val(shape.x), val(shape.y), val(shape.width),
                                  val(shape.height)>>)>>
      [] shape.kind = "Circle" ->
            <<path_call("circle", <<val(shape.cx), val(shape.cy), val(shape.r)>>)>>
      [] shape.kind = "Path" ->
            LET segments == path_cmds(shape.cmd, 1, PathStateInit).segments
            IN  [k \in 1..Len(segments) |->
                    path_call(segments[k].op,
                              <<segments[k].to, segments[k].ctrl1, segments[k].ctrl2>>)]
      [] OTHER -> <<>>

\* path.fill(..) and path.stroke(..), each made only for a paint that is there
fill_calls(fill) ==
    IF is_some(fill) THEN <<path_call("fill", <<unwrap(fill).paint>>)>> ELSE <<>>
stroke_calls(stroke) ==
    IF is_some(stroke)
    THEN <<path_call("stroke", <<unwrap(stroke).paint, unwrap(stroke).width>>)>>
    ELSE <<>>

\* Variant of path_calls that strokes before it fills.
path_calls_stroke_first(shape, defaults) ==
    geometry_calls(shape) \o stroke_calls(effective_stroke(shape, defaults))
        \o fill_calls(effective_fill(shape, defaults))

\* The body of the closure: the geometry, then the fill, then the stroke.
path_calls(shape, defaults) ==
    geometry_calls(shape) \o fill_calls(effective_fill(shape, defaults))
        \o stroke_calls(effective_stroke(shape, defaults))

\* frame.path(..) for a Rect, Circle or Path: one draw instruction carrying the
\* calls made on the path and the paint of the fill call and of the stroke call
\* (None when the call is skipped).
draw_path(shape, path, defaults) ==
    LET fill == effective_fill(shape, defaults)
        stroke == effective_stroke(shape, defaults)
        options == path_options(shape.transparency, shape.clip, shape.transform, defaults)
    IN  [kind |-> shape.kind,
         path |-> path,
         geometry |-> shape_geometry(shape),
         calls |-> path_calls(shape, defaults),
         fill |-> IF is_some(fill) THEN Some(unwrap(fill).paint) ELSE None,
         stroke |-> IF is_some(stroke) THEN Some(unwrap(stroke)) ELSE None,
         alpha |-> options.alpha,
         clip |-> options.clip,
         transform |-> options.transform]

\* Variant of group_overrides that compounds the transparency with the inherited one.
group_overrides_compound(group, defaults) ==
    [transparency |-> IF is_some(group.group_transparency)
                      THEN One - ((One - unwrap(group.group_transparency))
                                  * (One - defaults.transparency)) \div One
                      ELSE defaults.transparency,
     fill |-> IF is_some(group.fill) THEN group.fill ELSE defaults.fill,
     stroke |-> IF is_some(group.stroke) THEN group.stroke ELSE defaults.stroke,
     clip |-> IF ~clip_is_none(group.clip) THEN group.clip ELSE defaults.clip]

\* Shape::Group: the overrides a Group writes into the threaded defaults
\* (the same statements stand in recalc_composite and in render_composite).
group_overrides(group, defaults) ==
    [transparency |-> IF is_some(group.group_transparency)
                      THEN unwrap(group.group_transparency)
                      ELSE defaults.transparency,
     fill |-> IF is_some(group.fill) THEN group.fill ELSE defaults.fill,
     stroke |-> IF is_some(group.stroke) THEN group.stroke ELSE defaults.stroke,
     clip |-> IF ~clip_is_none(group.clip) THEN group.clip ELSE defaults.clip]

\* ---- text
\* Variant of font_found for a context that answers every name with some font.
font_found_any(text) == TRUE

\* NanovgFont::find(..) returned a font: one was created in the context under
\* that name.
font_found(text) == text.font_name \in fonts

ColorDefault == "default"
is_color(paint) == paint # "gradient"

\* The alpha component of a colour, in hundredths.
color_alpha(color) == IF color = "glass" THEN 50 ELSE One

\* Variant of text_color that falls back to the defaults' fill when the own one
\* is no colour.
text_color_defaults_for_gradient(text, defaults) ==
    IF is_some(text.fill) /\ is_color(unwrap(text.fill).paint) THEN unwrap(text.fill).paint
    ELSE IF is_some(defaults.fill) /\ is_color(unwrap(defaults.fill).paint)
    THEN unwrap(defaults.fill).paint
    ELSE ColorDefault

\* color of TextOptions before its alpha is set: the paint of the effective fill
\* when it is a colour, else the default colour
text_color(text, defaults) ==
    LET fill == effective_fill(text, defaults)
    IN  IF is_some(fill) /\ is_color(unwrap(fill).paint) THEN unwrap(fill).paint
        ELSE ColorDefault

\* alpha is the alpha of the colour after set_alpha, in units of 1/(One*One*One)
text_options(text, defaults) ==
    [color |-> text_color(text, defaults),
     alpha |-> color_alpha(text_color(text, defaults))
               * (One - defaults.transparency) * (One - text.transparency),
     size |-> val(text.font_size),
     clip |-> nanovg_clip(clip_or(text.clip, defaults.clip)),
     transform |-> nanovg_transform(text.transform)]

\* frame.text(..): one draw instruction
draw_text(text, path, defaults) ==
    LET options == text_options(text, defaults)
    IN  [kind |-> "Text",
         path |-> path,
         geometry |-> <<val(text.x), val(text.y), text.content>>,
         calls |-> <<>>,
         fill |-> Some(options.color),
         stroke |-> None,
         alpha |-> options.alpha,
         clip |-> options.clip,
         transform |-> options.transform]

\* The panics of the two passes.
FontNotFound(path) == [kind |-> "FontNotFound", path |-> path, segments |-> <<>>]
UnsupportedPathCommand(path, segments) ==
    [kind |-> "UnsupportedPathCommand", path |-> path, segments |-> segments]

\* The panic the visit of the shape itself ends in, if any.
render_panic(composite, path) ==
    CASE composite.kind = "Path" ->
            LET st == path_cmds(composite.cmd, 1, PathStateInit)
            IN  IF st.panic THEN Some(UnsupportedPathCommand(path, st.segments)) ELSE None
      [] composite.kind = "Text" ->
            IF font_found(composite) THEN None ELSE Some(FontNotFound(path))
      [] OTHER -> None

RECURSIVE render_composite(_, _, _)
RECURSIVE render_children(_, _, _, _)

\* Variant of render_children that walks the children from the last to the first.
render_children_reversed(children, i, path, defaults) ==
    IF i > Len(children)
    THEN [draws |-> <<>>, defaults |-> defaults, trace |-> <<>>, panic |-> None]
    ELSE LET k == Len(children) + 1 - i
             one == render_composite(children[k], Append(path, k), defaults)
             rest == render_children(children, i + 1, path, one.defaults)
         IN  IF is_some(one.panic) THEN one
             ELSE [draws |-> one.draws \o rest.draws,
                   defaults |-> rest.defaults,
                   trace |-> one.trace \o rest.trace,
                   panic |-> rest.panic]

\* Variant of render_children that stops after the first child.
render_children_first_only(children, i, path, defaults) ==
    IF i > Len(children) \/ i > 1
    THEN [draws |-> <<>>, defaults |-> defaults, trace |-> <<>>, panic |-> None]
    ELSE render_composite(children[i], Append(path, i), defaults)

\* The loop over composite.children(): one threaded defaults value for them all;
\* a panic ends it.
render_children(children, i, path, defaults) ==
    IF i > Len(children)
    THEN [draws |-> <<>>, defaults |-> defaults, trace |-> <<>>, panic |-> None]
    ELSE LET one == render_composite(children[i], Append(path, i), defaults)
             rest == render_children(children, i + 1, path, one.defaults)
         IN  IF is_some(one.panic) THEN one
             ELSE [draws |-> one.draws \o rest.draws,
                   defaults |-> rest.defaults,
                   trace |-> one.trace \o rest.trace,
                   panic |-> rest.panic]

\* Returns the draw instructions of the subtree, the defaults as the call leaves
\* them, the record of the calls made, and the panic that ended it, if any.
render_composite(composite, path, defaults) ==
    LET visit == <<[path |-> path, kind |-> composite.kind,
                    before |-> defaults,
                    after |-> IF composite.kind = "Group"
                              THEN group_overrides(composite, defaults)
                              ELSE defaults]>>
        failed == render_panic(composite, path)
        own == CASE composite.kind \in {"Rect", "Circle", "Path"} ->
                        <<draw_path(composite, path, defaults)>>
                 [] composite.kind = "Text" -> <<draw_text(composite, path, defaults)>>
                 [] OTHER -> <<>>
        kids == render_children(composite.children, 1, path, visit[1].after)
    IN  IF is_some(failed)
        THEN [draws |-> <<>>, defaults |-> defaults, trace |-> visit, panic |-> failed]
        ELSE [draws |-> own \o kids.draws,
              defaults |-> kids.defaults,
              trace |-> visit \o kids.trace,
              panic |-> kids.panic]

\* ---------------------------------------------------------------- layout pass
\* Variant of set_by_pct_padding that resolves against the far edge of the bound.
set_by_pct_padding_from_max(padding, parent_bound) ==
    [left |-> set_by_pct(padding.left, parent_bound.max_x),
     right |-> set_by_pct(padding.right, parent_bound.max_x),
     top |-> set_by_pct(padding.top, parent_bound.max_y),
     bottom |-> set_by_pct(padding.bottom, parent_bound.max_y)]

set_by_pct_padding(padding, parent_bound) ==
    [left |-> set_by_pct(padding.left, bb_width(parent_bound)),
     right |-> set_by_pct(padding.right, bb_width(parent_bound)),
     top |-> set_by_pct(padding.top, bb_height(parent_bound)),
     bottom |-> set_by_pct(padding.bottom, bb_height(parent_bound))]

set_by_pct_clip(clip, parent_bound) ==
    IF clip.kind = "Scissor"
    THEN [clip EXCEPT !.x = set_by_pct(@, bb_width(parent_bound)),
                      !.y = set_by_pct(@, bb_height(parent_bound)),
                      !.width = set_by_pct(@, bb_width(parent_bound)),
                      !.height = set_by_pct(@, bb_height(parent_bound))]
    ELSE clip

\* Variant of pos_by_pct that adds the parent's min whatever set_by_pct returned.
pos_by_pct_always_offset(d, base, min) ==
    [set_by_pct(d, base) EXCEPT !.val = @ + min]

\* if d.set_by_pct(base) { d.0 += min }
pos_by_pct(d, base, min) ==
    IF is_pct(d)
    THEN [set_by_pct(d, base) EXCEPT !.val = @ + min]
    ELSE set_by_pct(d, base)

\* BoundingBox { x, y, x + width, y + height }
rect_bound(rect) ==
    BoundingBox(val(rect.x), val(rect.y),
                val(rect.x) + val(rect.width), val(rect.y) + val(rect.height))

\* BoundingBox { cx - r, cy - r, cx + r, cy + r }
circle_bound(circle) ==
    BoundingBox(val(circle.cx) - val(circle.r), val(circle.cy) - val(circle.r),
                val(circle.cx) + val(circle.r), val(circle.cy) + val(circle.r))

\* Percent fields of a node resolved against the parent bound.
resolve_percent(shape, parent_bound) ==
    CASE shape.kind = "Rect" ->
            [shape EXCEPT
                !.x = pos_by_pct(@, bb_width(parent_bound), parent_bound.min_x),
                !.y = pos_by_pct(@, bb_height(parent_bound), parent_bound.min_y),
                !.width = set_by_pct(@, bb_width(parent_bound)),
                !.height = set_by_pct(@, bb_height(parent_bound)),
                !.padding = set_by_pct_padding(@, parent_bound),
                !.clip = set_by_pct_clip(@, parent_bound)]
      [] shape.kind = "Circle" ->
            [shape EXCEPT
                !.cx = pos_by_pct(@, bb_width(parent_bound), parent_bound.min_x),
                !.cy = pos_by_pct(@, bb_height(parent_bound), parent_bound.min_y),
                !.r = set_by_pct(@, Min(bb_width(parent_bound), bb_height(parent_bound))),
                !.padding = set_by_pct_padding(@, parent_bound),
                !.clip = set_by_pct_clip(@, parent_bound)]
      [] shape.kind = "Text" ->
            [shape EXCEPT
                !.x = pos_by_pct(@, bb_width(parent_bound), parent_bound.min_x),
                !.y = pos_by_pct(@, bb_height(parent_bound), parent_bound.min_y),
                !.clip = set_by_pct_clip(@, parent_bound)]
      [] shape.kind \in {"Path", "Group"} ->
            [shape EXCEPT !.clip = set_by_pct_clip(@, parent_bound)]
      [] OTHER -> shape

\* shape.recalculate_transform(parent_global): the shape with the global matrix cached
recalculate_transform(shape, parent_global) ==
    [shape EXCEPT !.transform.calculated =
                      Some(calculate_global(shape.transform, parent_global))]

\* Variant of children_transform in which the padding does not move the children.
children_transform_no_padding(shape, parent_global) ==
    CASE shape.kind \in {"Rect", "Circle", "Text", "Path", "Group"} ->
            calculate_global(shape.transform, parent_global)
      [] OTHER -> parent_global

\* The transform handed to the children: the node's global matrix, for a Rect or
\* Circle translated by (padding.left, padding.top); a composite without a shape
\* hands on the one it got.
children_transform(shape, parent_global) ==
    CASE shape.kind \in {"Rect", "Circle"} ->
            translate_add(calculate_global(shape.transform, parent_global),
                          val(shape.padding.left), val(shape.padding.top))
      [] shape.kind \in {"Text", "Path", "Group"} ->
            calculate_global(shape.transform, parent_global)
      [] OTHER -> parent_global

\* Top-down step of a node: its percent fields resolved and its global matrix cached.
top_down(shape, parent_bound, parent_global) ==
    IF shape.kind = "None" THEN shape
    ELSE recalculate_transform(resolve_percent(shape, parent_bound), parent_global)

\* frame.text_metrics(..): the text capability answers with the font size for
\* every line metric.
text_metrics(options) ==
    [ascender |-> options.size, descender |-> 0, line_height |-> options.size]

\* frame.text_glyph_positions((x, y), content): one glyph per character, each as
\* wide as the font size, in the coordinate space of the position.
text_glyph_positions(x, size, content) ==
    [k \in 1..Len(content) |->
        [x |-> x + (k - 1) * size, min_x |-> x + (k - 1) * size, max_x |-> x + k * size]]

\* The Text with its metrics and glyph positions stored.
measure_text(text, defaults) ==
    LET options == text_options(text, defaults)
    IN  [text EXCEPT
            !.metrics = Some(text_metrics(options)),
            !.glyph_positions = text_glyph_positions(val(text.x), options.size, text.content)]

\* BoundingBox { x, y, x + last glyph max_x (or 0), y + line_height }
text_bound(text) ==
    BoundingBox(val(text.x), val(text.y),
                val(text.x) + (IF text.glyph_positions = <<>> THEN 0
                               ELSE text.glyph_positions[Len(text.glyph_positions)].max_x),
                val(text.y) + unwrap(text.metrics).line_height)

\* Variant of top_down_bound in which a Group hands on the default box.
top_down_bound_group_default(shape, parent_bound) ==
    CASE shape.kind = "Rect" -> rect_bound(shape)
      [] shape.kind = "Circle" -> circle_bound(shape)
      [] shape.kind = "Text" -> text_bound(shape)
      [] shape.kind = "Group" -> BoundingBoxDefault
      [] OTHER -> parent_bound

\* The bound after the top-down step: the one handed to the children.
top_down_bound(shape, parent_bound) ==
    CASE shape.kind = "Rect" -> rect_bound(shape)
      [] shape.kind = "Circle" -> circle_bound(shape)
      [] shape.kind = "Text" -> text_bound(shape)
      [] OTHER -> parent_bound

\* Variant of rect_bottom_up that sizes from the inner max alone.
rect_bottom_up_width_from_max(rect, inner) ==
    LET x == set_by_auto(rect.x, inner.min_x - val(rect.padding.left))
        y == set_by_auto(rect.y, inner.min_y - val(rect.padding.left))
    IN  [rect EXCEPT
            !.x = x,
            !.y = y,
            !.width = set_by_auto(@, inner.max_x + left_and_right(rect.padding)),
            !.height = set_by_auto(@, inner.max_y + top_and_bottom(rect.padding))]

\* Bottom-up step of a Rect: Auto fields resolved from the children's inner bound
\* (width and height read the x and y just resolved).
rect_bottom_up(rect, inner) ==
    LET x == set_by_auto(rect.x, inner.min_x - val(rect.padding.left))
        y == set_by_auto(rect.y, inner.min_y - val(rect.padding.left))
    IN  [rect EXCEPT
            !.x = x,
            !.y = y,
            !.width = set_by_auto(@, inner.max_x - val(x) + left_and_right(rect.padding)),
            !.height = set_by_auto(@, inner.max_y - val(y) + top_and_bottom(rect.padding))]

\* Variant of circle_auto_r that takes the smaller extent.
circle_auto_r_smaller(circle, inner) ==
    Min(bb_width(inner) + left_and_right(circle.padding),
        bb_height(inner) + top_and_bottom(circle.padding)) \div 2

\* Radius an Auto r is given.
circle_auto_r(circle, inner) ==
    Max(bb_width(inner) + left_and_right(circle.padding),
        bb_height(inner) + top_and_bottom(circle.padding)) \div 2

\* Bottom-up step of a Circle.
circle_bottom_up(circle, inner) ==
    [circle EXCEPT
        !.cx = set_by_auto(@, inner.min_x + bb_width(inner) \div 2
                              + val(circle.padding.left)),
        !.cy = set_by_auto(@, inner.min_y + bb_height(inner) \div 2
                              + val(circle.padding.top)),
        !.r = set_by_auto(@, circle_auto_r(circle, inner))]

bottom_up(shape, inner) ==
    CASE shape.kind = "Rect" -> rect_bottom_up(shape, inner)
      [] shape.kind = "Circle" -> circle_bottom_up(shape, inner)
      [] OTHER -> shape

\* TransformMatrix * BoundingBox: the four corners mapped
matrix_mul_bound(m, b) ==
    <<matrix_mul_point(m, <<b.min_x, b.min_y>>), matrix_mul_point(m, <<b.min_x, b.max_y>>),
      matrix_mul_point(m, <<b.max_x, b.min_y>>), matrix_mul_point(m, <<b.max_x, b.max_y>>)>>

\* One turn of the loop over the corners: the box grown to hold corner idx of both.
RECURSIVE text_corners(_, _, _, _)
text_corners(b, bound_points, inner_bound_points, idx) ==
    IF idx > 4 THEN b
    ELSE text_corners(
            [min_x |-> Min(Min(b.min_x, bound_points[idx][1]), inner_bound_points[idx][1]),
             max_x |-> Max(Max(b.max_x, bound_points[idx][1]), inner_bound_points[idx][1]),
             min_y |-> Min(Min(b.min_y, bound_points[idx][2]), inner_bound_points[idx][2]),
             max_y |-> Max(Max(b.max_y, bound_points[idx][2]), inner_bound_points[idx][2])],
            bound_points, inner_bound_points, idx + 1)

\* Bottom-up bound of a Text: the box of its bound and of the inner bound, both
\* mapped through its local matrix.
text_bottom_up_bound(text, inner, bound) ==
    LET bound_points == matrix_mul_bound(matrix(text.transform), bound)
        inner_bound_points == matrix_mul_bound(matrix(text.transform), inner)
    IN  text_corners(BoundingBox(bound_points[1][1], bound_points[1][2],
                                 bound_points[1][1], bound_points[1][2]),
                     bound_points, inner_bound_points, 1)

\* The bound recalc_composite returns.
bottom_up_bound(shape, inner, bound) ==
    CASE shape.kind = "Rect" -> rect_bound(shape)
      [] shape.kind = "Circle" -> circle_bound(shape)
      [] shape.kind = "Text" -> text_bottom_up_bound(shape, inner, bound)
      [] OTHER -> bound

\* Variant of union_step that takes the whole box of a child reaching further left or up.
union_step_replace(inner, bound) ==
    IF bound.min_x < inner.min_x \/ bound.min_y < inner.min_y THEN bound ELSE inner

\* One step of the fold over child_bounds[1..].
union_step(inner, bound) ==
    [min_x |-> IF bound.min_x < inner.min_x THEN bound.min_x ELSE inner.min_x,
     min_y |-> IF bound.min_y < inner.min_y THEN bound.min_y ELSE inner.min_y,
     max_x |-> IF bound.max_x > inner.max_x THEN bound.max_x ELSE inner.max_x,
     max_y |-> IF bound.max_y > inner.max_y THEN bound.max_y ELSE inner.max_y]

RECURSIVE fold_from(_, _, _)
fold_from(inner, bounds, i) ==
    IF i > Len(bounds) THEN inner
    ELSE fold_from(union_step(inner, bounds[i]), bounds, i + 1)

\* Variant of fold_bounds that starts the fold from the default box.
fold_bounds_from_default(bounds) == fold_from(BoundingBoxDefault, bounds, 1)

\* The tail of calc_inner_bound: the default box for no children, else the fold
\* that starts from the first child's bound.
fold_bounds(bounds) ==
    IF bounds = <<>> THEN BoundingBoxDefault
    ELSE fold_from(bounds[1], bounds, 2)

RECURSIVE recalc_composite(_, _, _, _, _)
RECURSIVE recalc_children(_, _, _, _, _, _)

\* The children loop after child i returned: a panic of the child ends the loop
\* and leaves the later children as they were; else its bound is pushed and the
\* loop goes on with the defaults the child left.
recalc_child_done(one, children, i, rest) ==
    IF is_some(one.panic)
    THEN [children |-> <<one.node>> \o SubSeq(children, i + 1, Len(children)),
          child_bounds |-> <<>>,
          defaults |-> one.defaults,
          trace |-> one.trace,
          panic |-> one.panic]
    ELSE [children |-> <<one.node>> \o rest.children,
          child_bounds |-> <<one.bound>> \o rest.child_bounds,
          defaults |-> rest.defaults,
          trace |-> one.trace \o rest.trace,
          panic |-> rest.panic]

\* The loop over composite.children_mut(): every child gets the same bound and
\* transform, the defaults are threaded from one child to the next.
recalc_children(children, i, path, bound, parent_global, defaults) ==
    IF i > Len(children)
    THEN [children |-> <<>>, child_bounds |-> <<>>, defaults |-> defaults, trace |-> <<>>,
          panic |-> None]
    ELSE LET one == recalc_composite(children[i], Append(path, i), bound,
                                      parent_global, defaults)
         IN  recalc_child_done(one, children, i,
                 recalc_children(children, i + 1, path, bound, parent_global,
                                 one.defaults))

\* The tail of calc_inner_bound over what the loop collected.
inner_bound_of(kids) ==
    [children |-> kids.children,
     child_bounds |-> kids.child_bounds,
     inner_bound |-> fold_bounds(kids.child_bounds),
     defaults |-> kids.defaults,
     trace |-> kids.trace,
     panic |-> kids.panic]

calc_inner_bound(composite, path, bound, parent_global, defaults) ==
    inner_bound_of(recalc_children(composite.children, 1, path, bound, parent_global,
                                   defaults))

\* The return of recalc_composite: the node after the bottom-up step, the bound
\* it reports, and the record of the call.
recalc_return(composite, path, parent_bound, parent_global, defaults, bound, global, inner, node, ret) ==
    [node |-> node,
     bound |-> ret,
     defaults |-> inner.defaults,
     trace |-> inner.trace \o
               <<[path |-> path, kind |-> composite.kind,
                  before |-> [composite EXCEPT !.children = <<>>],
                  defaults |-> defaults,
                  parent_bound |-> parent_bound,
                  parent_global_transform |-> parent_global,
                  children_bound |-> bound,
                  children_transform |-> global,
                  child_bounds |-> inner.child_bounds,
                  inner_bound |-> inner.inner_bound,
                  bound |-> ret]>>,
     panic |-> None]

\* The bottom-up phase of recalc_composite, after calc_inner_bound returned
\* inner: a panic below leaves the node with its top-down fields only.
recalc_bottom_up(composite, top, path, parent_bound, parent_global, defaults, bound, global, inner, node) ==
    IF is_some(inner.panic)
    THEN [node |-> [top EXCEPT !.children = inner.children], bound |-> bound,
          defaults |-> inner.defaults, trace |-> inner.trace, panic |-> inner.panic]
    ELSE recalc_return(composite, path, parent_bound, parent_global, defaults, bound,
                       global, inner, node,
                       bottom_up_bound(node, inner.inner_bound, bound))

\* The inner phase of recalc_composite: the children are laid out against the
\* bound and transform of the node, then the node is resolved bottom-up.
recalc_inner(composite, top, path, parent_bound, parent_global, defaults, bound, global, inner) ==
    recalc_bottom_up(composite, top, path, parent_bound, parent_global, defaults, bound,
                     global, inner,
                     bottom_up([top EXCEPT !.children = inner.children],
                               inner.inner_bound))

\* The top-down phase of recalc_composite once the node's own fields are set:
\* the bound and transform for the children, and a Group's overrides.
recalc_top_down(composite, top, path, parent_bound, parent_global, defaults, bound, global) ==
    recalc_inner(composite, top, path, parent_bound, parent_global, defaults, bound, global,
                 calc_inner_bound(top, path, bound, global,
                                  IF top.kind = "Group" THEN group_overrides(top, defaults)
                                  ELSE defaults))

\* recalc_composite after the percent fields and the transform are resolved: a
\* Text whose font is not loaded panics, else it is measured.
recalc_resolved(composite, resolved, top, path, parent_bound, parent_global, defaults) ==
    IF resolved.kind = "Text" /\ ~font_found(resolved)
    THEN [node |-> resolved, bound |-> parent_bound, defaults |-> defaults,
          trace |-> <<>>, panic |-> Some(FontNotFound(path))]
    ELSE recalc_top_down(composite, top, path, parent_bound, parent_global, defaults,
                         top_down_bound(top, parent_bound),
                         children_transform(top, parent_global))

\* The Text arm of the top-down match stores metrics and glyph positions.
measured(resolved, defaults) ==
    IF resolved.kind = "Text" THEN measure_text(resolved, defaults) ELSE resolved

\* Returns the node as the call leaves it, the bound the call returns, the
\* defaults as the call leaves them, the record of the calls that returned (each
\* with the shape as the call found it), and the panic that ended it, if any.
recalc_composite(composite, path, parent_bound, parent_global, defaults) ==
    LET resolved == top_down(composite, parent_bound, parent_global)
    IN  recalc_resolved(composite, resolved, measured(resolved, defaults), path,
                        parent_bound, parent_global, defaults)

\* ---------------------------------------------------------------- render
\* The nodes a layout pass resolved and the nodes a composition pass drew.
recalc_events(trace) == [k \in 1..Len(trace) |-> [op |-> "recalc", path |-> trace[k].path]]
draw_events(ds) == [k \in 1..Len(ds) |-> [op |-> "draw", path |-> ds[k].path]]

\* Variant of need_recalc_or_true that takes an unknown answer for false.
need_recalc_or_false(need_recalc) ==
    IF is_some(need_recalc) THEN unwrap(need_recalc) ELSE FALSE

\* node.need_recalc().unwrap_or(true)
need_recalc_or_true(need_recalc) ==
    IF is_some(need_recalc) THEN unwrap(need_recalc) ELSE TRUE

\* Variant of composite_after_render that caches the last defaults' fill on the node.
composite_after_render_cached(composite, defaults) ==
    [composite EXCEPT !.fill = defaults.fill]

\* The tree as render_composite leaves it: it holds the composite by shared
\* reference and writes to the defaults alone.
composite_after_render(composite, defaults) == composite

\* Variant of composition_defaults that goes on with the defaults of the layout pass.
composition_defaults_reused(layout_defaults) == layout_defaults

\* let mut defaults = ShapeDefaults::default(): the defaults the composition pass
\* starts from, whatever the layout pass left in its own.
composition_defaults(layout_defaults) == ShapeDefaultsDefault

\* ---------------------------------------------------------------- Comp
\* egml/comp.rs.  A model is a number, a view Node records the model it was
\* built from and the defaults it was resolved with.  Node::input is the code
\* of the component: what it reports and the model it leaves are inputs.
Props == {1, 2}
Models == 0..2
NodeDefaultsSet == {None, Some("d1"), Some("d2")}
InputEvents == {"MouseDown", "KeyDown"}
Outcomes == [changed : BOOLEAN, model : Models]

\* Comp::default(): every field is None.
CompDefault ==
    [model |-> None, props |-> None, view_node |-> None, defaults |-> None,
     resolver |-> FALSE, drawer |-> FALSE, inputer |-> FALSE]

\* No call was made on the Comp yet.
CompNoCall ==
    [op |-> "new", ret |-> None, panic |-> FALSE, changed |-> FALSE, before |-> CompDefault]

\* What a call on the Comp found, what it returned and whether it panicked.
CompCall(op, before, ret, changed, panic) ==
    [op |-> op, ret |-> ret, panic |-> panic, changed |-> changed, before |-> before]

\* ModelComponent::create(&props)
create(props) == props

\* model.view(): a Node built from the model, not resolved yet.
view(model) == [of |-> model, resolved |-> FALSE, defaults |-> None]

\* Node::resolve(defaults)
node_resolve(node, defaults) == [node EXCEPT !.resolved = TRUE, !.defaults = defaults]

\* Comp::init
comp_init(c, props) ==
    [c EXCEPT !.model = Some(create(props)), !.view_node = Some(view(create(props))),
              !.props = Some(props), !.resolver = TRUE, !.drawer = TRUE,
              !.inputer = TRUE]

\* The closure init stores in resolver: view_node_mut panics without a node.
resolver(c) ==
    IF is_some(c.view_node)
    THEN [comp |-> [c EXCEPT !.view_node =
                                Some(node_resolve(unwrap(c.view_node), c.defaults))],
          panic |-> FALSE]
    ELSE [comp |-> c, panic |-> TRUE]

\* Comp::resolve: the defaults are stored before the resolver is looked up.
comp_resolve(c, defaults) ==
    IF c.resolver THEN resolver([c EXCEPT !.defaults = defaults])
    ELSE [comp |-> [c EXCEPT !.defaults = defaults], panic |-> TRUE]

\* The inputer once the node is taken out and Node::input returned outcome:
\* a change makes a new view of the model, resolved with the defaults, and
\* the node is put back.
inputer_put_back(taken, view_node, outcome) ==
    [comp |-> [taken EXCEPT !.model = Some(outcome.model),
                            !.view_node =
                                Some(IF outcome.changed
                                     THEN node_resolve(view(outcome.model), taken.defaults)
                                     ELSE view_node)],
     ret |-> FALSE, panic |-> FALSE]

\* Variant of inputer that puts back a new view only and returns what Node::input reported.
inputer_new_view_only(c, event, outcome) ==
    IF ~is_some(c.view_node) \/ ~is_some(c.model)
    THEN [comp |-> [c EXCEPT !.view_node = None], ret |-> FALSE, panic |-> TRUE]
    ELSE [comp |-> [c EXCEPT !.model = Some(outcome.model),
                             !.view_node =
                                 IF outcome.changed
                                 THEN Some(node_resolve(view(outcome.model), c.defaults))
                                 ELSE None],
          ret |-> outcome.changed, panic |-> FALSE]

\* The closure init stores in inputer: the node is taken out of the Comp for
\* the call of Node::input; without a node or a model it panics.
inputer(c, event, outcome) ==
    IF ~is_some(c.view_node) \/ ~is_some(c.model)
    THEN [comp |-> [c EXCEPT !.view_node = None], ret |-> FALSE, panic |-> TRUE]
    ELSE inputer_put_back([c EXCEPT !.view_node = None], unwrap(c.view_node), outcome)

\* Comp::input: self.inputer.map(..).unwrap_or(false)
comp_input(c, event, outcome) ==
    IF c.inputer THEN inputer(c, event, outcome)
    ELSE [comp |-> c, ret |-> FALSE, panic |-> FALSE]

\* ---------------------------------------------------------------- NanovgRender
\* What a call on the NanovgRender returned.
CallResult(op, value) == [op |-> op, value |-> value]

\* Variant of ok_or_context_is_not_init that goes on without a context.
ok_or_unchecked(ctx) == [ok |-> TRUE, err |-> "ContextIsNotInit"]

\* self.context.as_ref().ok_or(NanovgRenderError::ContextIsNotInit)
ok_or_context_is_not_init(ctx) == [ok |-> is_some(ctx), err |-> "ContextIsNotInit"]

\* Variant of init that builds a context at every call.
init_rebuilds(ctx, fresh, built) ==
    IF built THEN [context |-> Some(fresh), value |-> "Ok"]
    ELSE [context |-> ctx, value |-> "InitNanovgContextFailed"]

\* NanovgRender::init: a context is built only when there is none; fresh names
\* the context ContextBuilder would build, built tells whether it can.
init(ctx, fresh, built) ==
    IF ctx = None
    THEN IF built THEN [context |-> Some(fresh), value |-> "Ok"]
         ELSE [context |-> ctx, value |-> "InitNanovgContextFailed"]
    ELSE [context |-> ctx, value |-> "Ok"]

\* One call of NanovgRender::init.
NvgInit(built) ==
    /\ inits < MaxInits
    /\ context' = init(context, inits + 1, built).context
    /\ result' = CallResult("init", init(context, inits + 1, built).value)
    /\ fonts' = IF init(context, inits + 1, built).context = context THEN fonts ELSE {}
    /\ inits' = inits + 1
    /\ UNCHANGED <<absolute_in_place, width, height, device_pixel_ratio, declared, tree, renders, passes,
                   ltrace, rtrace, draws, events, error, child_bounds, inner_bound,
                   path_done, path_prev, path_state, refused, configs, comp_vars>>

\* The closure render hands to Context::frame, and the Ok(()) after it.
Frame(need_recalc) ==
    /\ LET bound == BoundingBox(0, 0, width, height)
           recalc == need_recalc_or_true(need_recalc)
           layout == recalc_composite(tree, <<>>, bound, Identity, ShapeDefaultsDefault)
           aborted == recalc /\ is_some(layout.panic)
           node == IF recalc THEN layout.node ELSE tree
           composed == render_composite(node, <<>>,
                                        composition_defaults(IF recalc THEN layout.defaults
                                                             ELSE ShapeDefaultsDefault))
       IN  /\ tree' = IF aborted THEN node
                       ELSE composite_after_render(node, composed.defaults)
           /\ passes' = IF recalc THEN passes + 1 ELSE passes
           /\ ltrace' = IF recalc THEN layout.trace ELSE <<>>
           /\ rtrace' = IF aborted THEN <<>> ELSE composed.trace
           /\ draws' = IF aborted THEN <<>> ELSE composed.draws
           /\ events' = (IF recalc THEN recalc_events(layout.trace) ELSE <<>>)
                        \o (IF aborted THEN <<>> ELSE draw_events(composed.draws))
           /\ error' = IF aborted THEN layout.panic ELSE composed.panic
           /\ result' = CallResult("render", IF aborted \/ is_some(composed.panic)
                                             THEN "panic" ELSE "Ok")
    /\ renders' = renders + 1
    /\ UNCHANGED <<absolute_in_place, width, height, device_pixel_ratio, declared, child_bounds, inner_bound,
                   path_done, path_prev, path_state, context, fonts, inits, refused,
                   configs, comp_vars>>

\* NanovgRender::render.  need_recalc is what node.need_recalc() reports: None,
\* Some(TRUE) or Some(FALSE).  Without a context the call returns the error and
\* the frame is not run.  A panic in the layout pass ends the call before the
\* composition pass; no call follows a panic.
Render(need_recalc) ==
    /\ renders < MaxRenders
    /\ error = None
    /\ IF ~ok_or_context_is_not_init(context).ok
       THEN /\ refused < MaxRefused
            /\ refused' = refused + 1
            /\ result' = CallResult("render", ok_or_context_is_not_init(context).err)
            /\ UNCHANGED <<absolute_in_place, width, height, device_pixel_ratio, declared, tree, renders,
                           passes, ltrace, rtrace, draws, events, error, child_bounds,
                           inner_bound, path_done, path_prev, path_state, context, fonts,
                           inits, configs, comp_vars>>
       ELSE Frame(need_recalc)

\* What the calls below have in common: they are counted, and they leave alone
\* the tree, everything a render call wrote and the counts of init and render
\* calls.
counted_call ==
    /\ configs < MaxConfigs
    /\ configs' = configs + 1
    /\ UNCHANGED <<absolute_in_place, declared, tree, renders, passes, ltrace, rtrace, draws, events, error,
                child_bounds, inner_bound, path_done, path_prev, path_state, inits,
                refused, comp_vars>>

\* One call of NanovgRender::set_dimensions: width and height are u32 and are
\* stored as f32, device_pixel_ratio is stored as f32.
SetDimensions(w, h, ratio) ==
    /\ width' = w * Unit
    /\ height' = h * Unit
    /\ device_pixel_ratio' = ratio
    /\ result' = CallResult("set_dimensions", "()")
    /\ UNCHANGED <<context, fonts>>
    /\ counted_call

\* Variant of load_font that creates the font without asking for a context.
load_font_unchecked(ctx, registered, name, created) ==
    IF created THEN [fonts |-> registered \cup {name}, value |-> "Ok"]
    ELSE [fonts |-> registered, value |-> "CreateFontError"]

\* NanovgRender::load_font: without a context ContextIsNotInit; created tells
\* whether NanovgFont::from_file can create the font from the file at path, and
\* a font it created is found under its name from then on.
load_font(ctx, registered, name, created) ==
    IF ~ok_or_context_is_not_init(ctx).ok
    THEN [fonts |-> registered, value |-> ok_or_context_is_not_init(ctx).err]
    ELSE IF created THEN [fonts |-> registered \cup {name}, value |-> "Ok"]
    ELSE [fonts |-> registered, value |-> "CreateFontError"]

\* One call of NanovgRender::load_font.
LoadFont(name, created) ==
    /\ fonts' = load_font(context, fonts, name, created).fonts
    /\ result' = CallResult("load_font", load_font(context, fonts, name, created).value)
    /\ UNCHANGED <<width, height, device_pixel_ratio, context>>
    /\ counted_call

\* The context a caller hands to with_context; it is told from the contexts init
\* builds, which are numbered from 1.
GivenContext == 0

\* One call of NanovgRender::with_context: the context is replaced by the given
\* one, whose fonts are those the caller created in it.
WithContext(registered) ==
    /\ context' = Some(GivenContext)
    /\ fonts' = registered
    /\ result' = CallResult("with_context", "Self")
    /\ UNCHANGED <<width, height, device_pixel_ratio>>
    /\ counted_call

\* One call of NanovgRender::with_width.
WithWidth(w) ==
    /\ width' = w * Unit
    /\ result' = CallResult("with_width", "Self")
    /\ UNCHANGED <<height, device_pixel_ratio, context, fonts>>
    /\ counted_call

\* One call of NanovgRender::with_height.
WithHeight(h) ==
    /\ height' = h * Unit
    /\ result' = CallResult("with_height", "Self")
    /\ UNCHANGED <<width, device_pixel_ratio, context, fonts>>
    /\ counted_call

\* One call of NanovgRender::with_device_pixel_ratio.
WithDevicePixelRatio(ratio) ==
    /\ device_pixel_ratio' = ratio
    /\ result' = CallResult("with_device_pixel_ratio", "Self")
    /\ UNCHANGED <<width, height, context, fonts>>
    /\ counted_call


\* ---------------------------------------------------------------- shape trees
Root(children) == [EmptyNode EXCEPT !.children = children]

Rect(x, y, w, h) ==
    [EmptyNode EXCEPT !.kind = "Rect", !.x = x, !.y = y, !.width = w, !.height = h]

Circle(cx, cy, r) ==
    [EmptyNode EXCEPT !.kind = "Circle", !.cx = cx, !.cy = cy, !.r = r]

Path == [EmptyNode EXCEPT !.kind = "Path"]

PathOf(cmd) == [Path EXCEPT !.cmd = cmd]

Text(x, y, font_name, font_size, content) ==
    [EmptyNode EXCEPT !.kind = "Text", !.x = x, !.y = y, !.font_name = font_name,
                      !.font_size = font_size, !.content = content]

Group(transparency, fill, children) ==
    [EmptyNode EXCEPT !.kind = "Group", !.group_transparency = transparency,
                      !.fill = fill, !.children = children]

Styled(shape, fill, transparency) ==
    [shape EXCEPT !.fill = fill, !.transparency = transparency]

Padded(shape, l, r, t, b) ==
    [shape EXCEPT !.padding = [left |-> l, right |-> r, top |-> t, bottom |-> b]]

WithChildren(shape, children) == [shape EXCEPT !.children = children]

\* Trees that exercise the style cascade.
OwnFills == {None, Some(Fill("blue"))}
GroupFills == {None, Some(Fill("red")), Some(Fill("green"))}
GroupTransparencies == {None, Some(25), Some(50)}
\* <<transparency, fill>> of the inner Group of two nested ones
InnerGroups == {<<None, None>>, <<Some(25), None>>, <<None, Some(Fill("green"))>>,
                <<Some(50), Some(Fill("red"))>>, <<Some(50), Some(Fill("green"))>>}

StyleLeaves ==
    ({Styled(Rect(Px(10), Px(10), Px(20), Px(20)), f, t) : f \in OwnFills, t \in {0, 50}}
        \ {Styled(Rect(Px(10), Px(10), Px(20), Px(20)), Some(Fill("blue")), 0)})
    \cup {Styled(Circle(Px(30), Px(30), Px(10)), None, 50),
          Styled(Path, Some(Fill("blue")), 0)}

StyleTrees ==
    {Root(<<Group(t, f, <<a>>), b>>) :
        t \in GroupTransparencies, f \in GroupFills, a \in StyleLeaves,
        b \in {l \in StyleLeaves : l.kind = "Rect"}}
    \cup {Root(<<Group(t, f, <<Group(g[1], g[2], <<a>>)>>)>>) :
        t \in GroupTransparencies, f \in GroupFills, g \in InnerGroups, a \in StyleLeaves}
    \cup {Root(<<Group(t, f, <<Group(g[1], g[2], <<>>), a>>)>>) :
        t \in GroupTransparencies, f \in GroupFills, g \in InnerGroups, a \in StyleLeaves}
    \cup {Root(<<a>>) : a \in StyleLeaves}

\* Trees that exercise percent resolution: a container and one percent child.
PercentParents ==
    {Padded(Rect(x, Px(20), w, Px(60)), l, Px(0), Px(0), Px(0)) :
        x \in {Px(10), Pct(10)}, w \in {Px(100), Pct(50)}, l \in {Px(0), Px(10)}}
    \cup {Circle(Px(60), Px(50), Px(40)), Rect(Auto, Auto, Auto, Auto)}

PercentChildren ==
    {Rect(x, y, w, Px(10)) :
        x \in {Pct(50), Pct(25), Px(5)}, y \in {Pct(50), Px(5)}, w \in {Pct(50), Px(20)}}
    \cup {Circle(Pct(50), Pct(50), Pct(50))}

PercentTrees ==
    {Root(<<WithChildren(p, <<c>>)>>) : p \in PercentParents, c \in PercentChildren}
    \cup {Root(<<c>>) : c \in PercentChildren}

\* Trees that exercise auto sizing: a container and up to two children.
AutoChildren ==
    {Rect(Px(10), Px(10), Px(30), Px(30)),
     Rect(Px(50), Px(50), Px(40), Px(40)),
     Rect(Px(0), Px(0), Px(10), Px(10)),
     Rect(Px(5), Px(5), Px(15), Px(15)),
     Rect(Px(20), Px(30), Px(40), Px(20)),
     Circle(Px(30), Px(30), Px(10)),
     Path}

AutoPaddings ==
    {ZeroPadding,
     [left |-> Px(10), right |-> Px(0), top |-> Px(20), bottom |-> Px(0)],
     [left |-> Px(0), right |-> Px(10), top |-> Px(0), bottom |-> Px(10)],
     [left |-> Pct(10), right |-> Px(0), top |-> Px(0), bottom |-> Pct(10)]}

AutoRects ==
    {[s EXCEPT !.padding = p] :
        s \in {Rect(Auto, Auto, Auto, Auto),
               Rect(Px(4), Auto, Auto, Px(50)),
               Rect(Px(4), Px(6), Px(50), Px(50))},
        p \in AutoPaddings}

AutoCircles ==
    {[s EXCEPT !.padding = p] :
        s \in {Circle(Auto, Auto, Auto),
               Circle(Px(50), Px(50), Auto),
               Circle(Px(50), Px(50), Px(20))},
        p \in AutoPaddings}

SecondChildren ==
    {Rect(Px(50), Px(50), Px(40), Px(40)), Rect(Px(5), Px(5), Px(15), Px(15)), Path}

ChildLists(S) ==
    {<<>>} \cup {<<a>> : a \in S} \cup {<<a, b>> : a \in S, b \in SecondChildren \cap S}

\* A Circle halves the extent of its inner bound: the children with an extent
\* of 15 give it a centre and a radius of a whole number and a half.
AutoTrees ==
    {Root(<<WithChildren(p, cs)>>) : p \in AutoRects, cs \in ChildLists(AutoChildren)}
    \cup {Root(<<WithChildren(p, cs)>>) : p \in AutoCircles, cs \in ChildLists(AutoChildren)}

\* Trees that exercise transform composition.
Transforms == {NoTransform, Local(Translation(5, 7)), Absolute(Translation(3, 0)),
               Local(Matrix(2, 0, 0, 2, 1, 1))}

TransformTrees ==
    {Root(<<[WithChildren(Padded(Rect(Px(10), Px(10), Px(80), Px(60)),
                                 Px(10), Px(0), Px(20), Px(0)),
                          <<[Group(None, None, <<[Circle(Px(30), Px(30), Px(10))
                                                    EXCEPT !.transform = t3]>>)
                               EXCEPT !.transform = t2]>>)
               EXCEPT !.transform = t1]>>) :
        t1 \in Transforms, t2 \in Transforms, t3 \in Transforms}

\* Trees that exercise the path interpreter: a Path between two Rects, or the
\* Path inside a Group and with a child of its own.
PathCmds ==
    {<<>>,
     <<Move(<<0, 0>>), BezCtrl(<<10, 0>>), BezCtrl(<<10, 10>>), CubBezTo(<<0, 10>>)>>,
     <<Move(<<5, 5>>), Line(<<20, 5>>), LineAlonY(20), LineAlonXRel(-15), Close>>,
     <<Move(<<0, 0>>), BezCtrl(<<10, 0>>), BezCtrl(<<10, 10>>), BezCtrl(<<20, 10>>),
       CubBezTo(<<20, 0>>), CubBezTo(<<0, 0>>)>>,
     <<MoveRel(<<5, 5>>), BezCtrlRel(<<5, 0>>), QuadBezToRel(<<10, 10>>),
       BezCtrl(<<30, 30>>), CubBezToRel(<<10, 0>>), LineRel(<<1, 1>>), LineAlonX(0),
       LineAlonYRel(4), QuadBezTo(<<2, 2>>)>>,
     <<Move(<<0, 0>>), BezCtrl(<<10, 0>>), CubBezTo(<<0, 10>>)>>,
     <<Move(<<0, 0>>), Line(<<10, 0>>), OtherCmd(<<10, 10>>), Line(<<0, 10>>)>>,
     <<OtherCmd(<<1, 1>>)>>,
     <<Move(<<0, 0>>), BezCtrl(<<10, 0>>), BezCtrl(<<10, 10>>), OtherCmd(<<5, 5>>),
       CubBezTo(<<0, 10>>)>>}

PathTrees ==
    {Root(<<Rect(Px(0), Px(0), Px(10), Px(10)),
            Styled(PathOf(c), f, 0),
            Styled(Rect(Px(20), Px(20), Px(10), Px(10)), Some(Fill("blue")), 0)>>) :
        c \in PathCmds, f \in {None, Some(Fill("red"))}}
    \cup {Root(<<Group(None, Some(Fill("green")),
                       <<WithChildren(PathOf(c), <<Circle(Px(30), Px(30), Px(10))>>)>>),
                 Circle(Px(50), Px(50), Px(10))>>) :
            c \in PathCmds}

\* Trees that exercise Text: a Text with a registered or an unknown font, alone
\* or with a child, between nodes with percent geometry.
Texts ==
    {[Text(x, Px(20), f, Px(10), <<"h", "i">>) EXCEPT !.transform = t] :
        x \in {Px(10), Pct(10)}, f \in {"sans", "serif"},
        t \in {NoTransform, Local(Translation(5, 7))}}

TextTrees ==
    {Root(<<Rect(Pct(10), Px(0), Pct(20), Px(10)),
            WithChildren(t, cs),
            Rect(Pct(50), Pct(50), Pct(10), Pct(10))>>) :
        t \in Texts, cs \in {<<>>, <<Rect(Pct(50), Px(0), Pct(50), Px(4))>>}}
    \cup {Root(<<Group(Some(50), None,
                       <<t, Group(None, None, <<Circle(Pct(50), Pct(50), Pct(10))>>)>>),
                 Rect(Pct(50), Pct(50), Pct(10), Pct(10))>>) :
            t \in Texts}

\* Trees that exercise a parent bound of zero width and height.
PctPadding == [left |-> Pct(10), right |-> Pct(20), top |-> Pct(10), bottom |-> Pct(50)]

ZeroParents ==
    {Rect(Px(10), Px(10), Px(0), Px(0)), Circle(Px(10), Px(10), Px(0)),
     Rect(Px(10), Px(10), Px(40), Px(20))}

ZeroChildren ==
    {[Rect(Pct(50), Pct(50), Pct(50), Pct(50)) EXCEPT !.padding = PctPadding],
     [Circle(Pct(50), Pct(50), Pct(50)) EXCEPT !.padding = PctPadding]}

ZeroTrees ==
    {Root(<<WithChildren(p, <<WithChildren(c, <<d>>), d>>)>>) :
        p \in ZeroParents, c \in ZeroChildren, d \in ZeroChildren}
    \cup {Root(<<c>>) : c \in ZeroChildren}

Trees ==
    StyleTrees \cup PercentTrees \cup AutoTrees \cup TransformTrees
    \cup PathTrees \cup TextTrees \cup ZeroTrees

NeedRecalc == {None, Some(TRUE), Some(FALSE)}

\* Only percent values read the viewport: the other trees get one width.  A
\* viewport of no width has no height either.
\* Only the trees with an absolute transform read the signature of the nanovg
\* build: they are drawn under both.
Init ==
    /\ declared \in Trees
    /\ width \in CASE declared \in PercentTrees -> {200 * Unit, 400 * Unit}
                   [] declared \in ZeroTrees -> {0, 200 * Unit}
                   [] OTHER -> {200 * Unit}
    /\ height = IF width = 0 THEN 0 ELSE 100 * Unit
    /\ tree = declared
    /\ renders = 0
    /\ passes = 0
    /\ ltrace = <<>>
    /\ rtrace = <<>>
    /\ draws = <<>>
    /\ events = <<>>
    /\ error = None
    /\ child_bounds = <<>>
    /\ inner_bound = None
    /\ path_done = <<>>
    /\ path_prev = PathStateInit
    /\ path_state = PathStateInit
    /\ context = Some(1)
    /\ inits = 1
    /\ refused = 0
    /\ result = CallResult("init", "Ok")
    /\ fonts = {"sans"}
    /\ device_pixel_ratio = 1
    /\ configs = 0
    /\ absolute_in_place \in IF declared \in TransformTrees THEN BOOLEAN ELSE {FALSE}
    /\ comp = CompDefault
    /\ comp_calls = 0
    /\ comp_last = CompNoCall

Next == \E need_recalc \in NeedRecalc : Render(need_recalc)

Spec == Init /\ [][Next]_vars

\* ---------------------------------------------------------------- paint and clip
\* Trees that exercise fill, stroke and clip: a plain Rect, a Group with a Group
\* inside it, the same leaf under both, and a Rect with a clip of its own after them.
GroupClip == Scissor(Px(0), Px(0), Pct(50), Pct(50))
InnerClip == Scissor(Pct(10), Pct(10), Px(30), Px(30))
OwnClip == Scissor(Px(5), Px(5), Px(20), Px(20))

GroupStyle(transparency, fill, stroke, clip) ==
    [transparency |-> transparency, fill |-> fill, stroke |-> stroke, clip |-> clip]

GroupStyles ==
    {GroupStyle(Some(50), Some(Fill("red")), Some(Stroke("black", 2)), GroupClip),
     GroupStyle(None, Some(Fill("gradient")), None, ClipNone),
     GroupStyle(Some(25), Some(Fill("glass")), Some(Stroke("black", 2)), ClipNone),
     GroupStyle(None, None, None, GroupClip)}

InnerGroupStyles ==
    {GroupStyle(None, None, None, ClipNone),
     GroupStyle(None, Some(Fill("blue")), None, InnerClip)}

LeafStyles ==
    {GroupStyle(0, None, None, ClipNone),
     GroupStyle(50, Some(Fill("blue")), None, OwnClip),
     GroupStyle(0, Some(Fill("gradient")), Some(Stroke("gradient", 1)), ClipNone),
     GroupStyle(50, None, Some(Stroke("white", 1)), OwnClip),
     GroupStyle(50, Some(Fill("glass")), None, ClipNone)}

LeafShapes ==
    {Rect(Px(10), Px(10), Px(20), Px(20)),
     Circle(Px(30), Px(30), Px(10)),
     PathOf(<<Move(<<5, 5>>), Line(<<20, 5>>), BezCtrl(<<20, 20>>), QuadBezTo(<<5, 20>>),
              Close>>),
     Text(Px(10), Px(20), "sans", Px(10), <<"h", "i">>)}

PaintLeaf(shape, style) ==
    [shape EXCEPT !.transparency = style.transparency, !.fill = style.fill,
                  !.stroke = style.stroke, !.clip = style.clip]

PaintGroup(style, children) ==
    [Group(style.transparency, style.fill, children)
        EXCEPT !.stroke = style.stroke, !.clip = style.clip]

PaintTrees ==
    {Root(<<Rect(Px(0), Px(0), Px(10), Px(10)),
            PaintGroup(g, <<PaintLeaf(l, s), PaintGroup(h, <<PaintLeaf(l, s)>>)>>),
            [Rect(Px(40), Px(40), Px(10), Px(10)) EXCEPT !.clip = OwnClip]>>) :
        g \in GroupStyles, h \in InnerGroupStyles, l \in LeafShapes, s \in LeafStyles}

InitPaint ==
    /\ declared \in PaintTrees
    /\ width = 200 * Unit
    /\ height = 100 * Unit
    /\ tree = declared
    /\ renders = 0
    /\ passes = 0
    /\ ltrace = <<>>
    /\ rtrace = <<>>
    /\ draws = <<>>
    /\ events = <<>>
    /\ error = None
    /\ child_bounds = <<>>
    /\ inner_bound = None
    /\ path_done = <<>>
    /\ path_prev = PathStateInit
    /\ path_state = PathStateInit
    /\ context = Some(1)
    /\ inits = 1
    /\ refused = 0
    /\ result = CallResult("init", "Ok")
    /\ fonts = {"sans"}
    /\ device_pixel_ratio = 1
    /\ configs = 0
    /\ absolute_in_place = FALSE
    /\ comp = CompDefault
    /\ comp_calls = 0
    /\ comp_last = CompNoCall

SpecPaint == InitPaint /\ [][Next]_vars

\* ---------------------------------------------------------------- the context
\* A NanovgRender as Default constructs it (no context, no dimensions), then
\* init, set_dimensions, load_font, the with_.. builders and render in any
\* order, on a tree whose percent values read the dimensions and whose Text
\* needs a font.
ContextTrees ==
    {Root(<<Rect(Pct(10), Px(0), Pct(50), Px(10)),
            Text(Pct(10), Px(20), "sans", Px(10), <<"h", "i">>)>>)}

InitContext ==
    /\ declared \in ContextTrees
    /\ width = 0
    /\ height = 0
    /\ tree = declared
    /\ renders = 0
    /\ passes = 0
    /\ ltrace = <<>>
    /\ rtrace = <<>>
    /\ draws = <<>>
    /\ events = <<>>
    /\ error = None
    /\ child_bounds = <<>>
    /\ inner_bound = None
    /\ path_done = <<>>
    /\ path_prev = PathStateInit
    /\ path_state = PathStateInit
    /\ context = None
    /\ inits = 0
    /\ refused = 0
    /\ result = CallResult("default", "Ok")
    /\ fonts = {}
    /\ device_pixel_ratio = 0
    /\ configs = 0
    /\ absolute_in_place = FALSE
    /\ comp = CompDefault
    /\ comp_calls = 0
    /\ comp_last = CompNoCall

\* The font names and the dimensions the calls are made with.
FontNames == {"sans"}
Dimensions == {<<200, 100, 1>>}

NextContext ==
    \/ \E built \in BOOLEAN : NvgInit(built)
    \/ \E d \in Dimensions : SetDimensions(d[1], d[2], d[3])
    \/ \E name \in FontNames, created \in BOOLEAN : LoadFont(name, created)
    \/ \E registered \in SUBSET FontNames : WithContext(registered)
    \/ \E d \in Dimensions : WithWidth(d[1])
    \/ \E d \in Dimensions : WithHeight(d[2])
    \/ \E d \in Dimensions : WithDevicePixelRatio(d[3])
    \/ Next

SpecContext == InitContext /\ [][NextContext]_vars

\* ---------------------------------------------------------------- the Comp alone
\* One call of Comp::init.
CompInit(props) ==
    /\ comp_calls < MaxCompCalls
    /\ ~comp_last.panic
    /\ comp' = comp_init(comp, props)
    /\ comp_last' = CompCall("init", comp, None, FALSE, FALSE)
    /\ comp_calls' = comp_calls + 1
    /\ UNCHANGED <<width, height, declared, tree, renders, passes, ltrace, rtrace, draws,
                   events, error, child_bounds, inner_bound, path_done, path_prev,
                   path_state, nvg_vars>>

\* One call of Comp::resolve.
CompResolve(defaults) ==
    /\ comp_calls < MaxCompCalls
    /\ ~comp_last.panic
    /\ comp' = comp_resolve(comp, defaults).comp
    /\ comp_last' = CompCall("resolve", comp, None, FALSE, comp_resolve(comp, defaults).panic)
    /\ comp_calls' = comp_calls + 1
    /\ UNCHANGED <<width, height, declared, tree, renders, passes, ltrace, rtrace, draws,
                   events, error, child_bounds, inner_bound, path_done, path_prev,
                   path_state, nvg_vars>>

\* One call of Comp::input.
CompInput(event, outcome) ==
    /\ comp_calls < MaxCompCalls
    /\ ~comp_last.panic
    /\ comp' = comp_input(comp, event, outcome).comp
    /\ comp_last' = CompCall("input", comp, Some(comp_input(comp, event, outcome).ret),
                             outcome.changed, comp_input(comp, event, outcome).panic)
    /\ comp_calls' = comp_calls + 1
    /\ UNCHANGED <<width, height, declared, tree, renders, passes, ltrace, rtrace, draws,
                   events, error, child_bounds, inner_bound, path_done, path_prev,
                   path_state, nvg_vars>>

InitComp ==
    /\ width = 0
    /\ height = 0
    /\ declared = Root(<<>>)
    /\ tree = declared
    /\ renders = 0
    /\ passes = 0
    /\ ltrace = <<>>
    /\ rtrace = <<>>
    /\ draws = <<>>
    /\ events = <<>>
    /\ error = None
    /\ child_bounds = <<>>
    /\ inner_bound = None
    /\ path_done = <<>>
    /\ path_prev = PathStateInit
    /\ path_state = PathStateInit
    /\ context = None
    /\ inits = 0
    /\ refused = 0
    /\ result = CallResult("default", "Ok")
    /\ fonts = {}
    /\ device_pixel_ratio = 0
    /\ configs = 0
    /\ absolute_in_place = FALSE
    /\ comp = CompDefault
    /\ comp_calls = 0
    /\ comp_last = CompNoCall

NextComp ==
    \/ \E props \in Props : CompInit(props)
    \/ \E defaults \in NodeDefaultsSet : CompResolve(defaults)
    \/ \E event \in InputEvents, outcome \in Outcomes : CompInput(event, outcome)

SpecComp == InitComp /\ [][NextComp]_vars

\* ---------------------------------------------------------------- the fold alone
Boxes ==
    {Box(0, 0, 10, 10), Box(5, 5, 20, 20), Box(10, 10, 40, 40),
     Box(50, 50, 90, 90), Box(-5, 30, 60, 35), Box(20, -10, 25, 95)}

\* child_bounds.push(..) for one more child
PushChildBound(b) ==
    /\ inner_bound = None
    /\ Len(child_bounds) < MaxChildBounds
    /\ child_bounds' = Append(child_bounds, b)
    /\ UNCHANGED <<width, height, declared, tree, renders, passes, ltrace, rtrace,
                   draws, events, error, inner_bound, path_done, path_prev, path_state,
                   nvg_vars, comp_vars>>

\* the tail of calc_inner_bound
ReturnInnerBound ==
    /\ inner_bound = None
    /\ inner_bound' = Some(fold_bounds(child_bounds))
    /\ UNCHANGED <<width, height, declared, tree, renders, passes, ltrace, rtrace,
                   draws, events, error, child_bounds, path_done, path_prev, path_state,
                   nvg_vars, comp_vars>>

InitUnion ==
    /\ width = 200 * Unit
    /\ height = 100 * Unit
    /\ declared = Root(<<>>)
    /\ tree = declared
    /\ renders = 0
    /\ passes = 0
    /\ ltrace = <<>>
    /\ rtrace = <<>>
    /\ draws = <<>>
    /\ events = <<>>
    /\ error = None
    /\ child_bounds = <<>>
    /\ inner_bound = None
    /\ path_done = <<>>
    /\ path_prev = PathStateInit
    /\ path_state = PathStateInit
    /\ context = Some(1)
    /\ inits = 1
    /\ refused = 0
    /\ result = CallResult("init", "Ok")
    /\ fonts = {"sans"}
    /\ device_pixel_ratio = 1
    /\ configs = 0
    /\ absolute_in_place = FALSE
    /\ comp = CompDefault
    /\ comp_calls = 0
    /\ comp_last = CompNoCall

NextUnion == (\E b \in Boxes : PushChildBound(b)) \/ ReturnInnerBound

SpecUnion == InitUnion /\ [][NextUnion]_vars

\* ---------------------------------------------------------------- the path interpreter alone
\* The commands fed to the interpreter: every kind, from cursors and control
\* points the earlier commands left.
PathCommands ==
    {Move(<<3, 4>>), MoveRel(<<3, 4>>), MoveRel(<<-2, 6>>), Line(<<3, 4>>),
     LineRel(<<3, 4>>), LineRel(<<-2, 6>>), LineAlonX(7), LineAlonXRel(7), LineAlonY(7),
     LineAlonYRel(7), Close, BezCtrl(<<3, 4>>), BezCtrl(<<-2, 6>>), BezCtrl(<<8, 1>>),
     BezCtrlRel(<<3, 4>>),
     QuadBezTo(<<3, 4>>), QuadBezToRel(<<3, 4>>), CubBezTo(<<3, 4>>),
     CubBezToRel(<<3, 4>>), OtherCmd(<<3, 4>>)}

\* One turn of the loop over path.cmd; no turn follows a panic.
InterpretCmd(cmd) ==
    /\ Len(path_done) < MaxCmds
    /\ ~path_state.panic
    /\ path_done' = Append(path_done, cmd)
    /\ path_prev' = path_state
    /\ path_state' = path_cmd(path_state, cmd)
    /\ UNCHANGED <<width, height, declared, tree, renders, passes, ltrace, rtrace,
                   draws, events, error, child_bounds, inner_bound, nvg_vars,
                   comp_vars>>

InitPath ==
    /\ width = 200 * Unit
    /\ height = 100 * Unit
    /\ declared = Root(<<>>)
    /\ tree = declared
    /\ renders = 0
    /\ passes = 0
    /\ ltrace = <<>>
    /\ rtrace = <<>>
    /\ draws = <<>>
    /\ events = <<>>
    /\ error = None
    /\ child_bounds = <<>>
    /\ inner_bound = None
    /\ path_done = <<>>
    /\ path_prev = PathStateInit
    /\ path_state = PathStateInit
    /\ context = Some(1)
    /\ inits = 1
    /\ refused = 0
    /\ result = CallResult("init", "Ok")
    /\ fonts = {"sans"}
    /\ device_pixel_ratio = 1
    /\ configs = 0
    /\ absolute_in_place = FALSE
    /\ comp = CompDefault
    /\ comp_calls = 0
    /\ comp_last = CompNoCall

NextPath == \E cmd \in PathCommands : InterpretCmd(cmd)

SpecPath == InitPath /\ [][NextPath]_vars

\* ---------------------------------------------------------------- reading a tree
RECURSIVE node_at(_, _)
node_at(t, path) ==
    IF path = <<>> THEN t ELSE node_at(t.children[Head(path)], Tail(path))

\* Paths of all nodes of the subtree t, which sits at path.
RECURSIVE paths_of(_, _)
paths_of(t, path) ==
    {path} \cup UNION {paths_of(t.children[i], Append(path, i)) : i \in 1..Len(t.children)}

\* Paths of the subtree t in document order (pre-order).
RECURSIVE pre_order(_, _)
RECURSIVE pre_order_children(_, _, _)
pre_order_children(children, i, path) ==
    IF i > Len(children) THEN <<>>
    ELSE pre_order(children[i], Append(path, i)) \o pre_order_children(children, i + 1, path)
pre_order(t, path) == <<path>> \o pre_order_children(t.children, 1, path)

parent_of(path) == SubSeq(path, 1, Len(path) - 1)
last_index(path) == path[Len(path)]
ancestors_of(path) == {SubSeq(path, 1, k) : k \in 0..(Len(path) - 1)}

\* The record of the call of render_composite / recalc_composite on the node at path.
visit_of(path) == rtrace[CHOOSE i \in 1..Len(rtrace) : rtrace[i].path = path]
layout_of(path) == ltrace[CHOOSE i \in 1..Len(ltrace) : ltrace[i].path = path]

paint_of(fill) == IF is_some(fill) THEN Some(unwrap(fill).paint) ELSE None

Red == Some(Fill("red"))

\* ---------------------------------------------------------------- claims

\* C1: in the composition pass a Rect with no own fill that comes after a sibling
\* Group overriding fill=red, and none of whose ancestors sets a fill, is drawn
\* without the red fill.
C1_SiblingOutsideGroupNotRed ==
    \A i \in 1..Len(draws) :
        LET d == draws[i]
            n == node_at(tree, d.path)
            siblings == node_at(tree, parent_of(d.path)).children
        IN  (/\ d.kind = "Rect"
             /\ ~is_some(n.fill)
             /\ \E j \in 1..(last_index(d.path) - 1) :
                    siblings[j].kind = "Group" /\ siblings[j].fill = Red
             /\ \A a \in ancestors_of(d.path) : ~is_some(node_at(tree, a).fill))
            => d.fill # Some("red")

\* Position of path in the document order.
index_in(order, path) == CHOOSE k \in 1..Len(order) : order[k] = path

\* C2: the fill a Rect, Circle or Path is drawn with is its own fill when set and
\* otherwise the fill of the defaults current at its visit; a Rect with no own
\* fill that is a child of a Group overriding fill=red is drawn red.
C2_OwnFillElseDefaults ==
    \A i \in 1..Len(draws) :
        LET d == draws[i]
            n == node_at(tree, d.path)
            current == visit_of(d.path).before
            parent == node_at(tree, parent_of(d.path))
        IN  d.kind \in {"Rect", "Circle", "Path"} =>
            /\ is_some(n.fill) => d.fill = paint_of(n.fill)
            /\ ~is_some(n.fill) => d.fill = paint_of(current.fill)
            /\ (/\ d.kind = "Rect" /\ ~is_some(n.fill)
                /\ parent.kind = "Group" /\ parent.fill = Red)
               => d.fill = Some("red")

\* C3: the alpha of the draw instruction of a Rect, Circle or Path is
\* (1 - node.transparency) * (1 - defaults.transparency), with the defaults as
\* they are when the node is visited; 0.5 and 0.5 give 0.25.
C3_AlphaIsProduct ==
    \A i \in 1..Len(draws) :
        LET d == draws[i]
            t == node_at(tree, d.path).transparency
            dt == visit_of(d.path).before.transparency
        IN  d.kind \in {"Rect", "Circle", "Path"} =>
            /\ d.alpha = (One - t) * (One - dt)
            /\ (2 * t = One /\ 2 * dt = One) => 4 * d.alpha = One * One

C3_Witness ==
    \E i \in 1..Len(draws) :
        /\ node_at(tree, draws[i].path).transparency = 50
        /\ visit_of(draws[i].path).before.transparency = 50
        /\ draws[i].alpha = 2500

\* The transparency of the last Group before position k of the document order
\* that sets one, 0 when there is none.
last_set_transparency(order, k) ==
    LET setters == {j \in 1..(k - 1) :
                        /\ node_at(tree, order[j]).kind = "Group"
                        /\ is_some(node_at(tree, order[j]).group_transparency)}
    IN  IF setters = {} THEN 0
        ELSE unwrap(node_at(tree,
                 order[CHOOSE j \in setters : \A m \in setters : m <= j]).group_transparency)

\* C4: a Group that sets a transparency overwrites defaults.transparency with it,
\* a Group that sets none leaves it unchanged, and a node's alpha uses only the
\* transparency of the last Group before it in document order that set one.
C4_TransparencyOverwritten ==
    /\ \A i \in 1..Len(rtrace) :
        LET v == rtrace[i]
            g == node_at(tree, v.path)
        IN  v.kind = "Group" =>
                v.after.transparency =
                    IF is_some(g.group_transparency)
                    THEN unwrap(g.group_transparency)
                    ELSE v.before.transparency
    /\ (draws # <<>> /\ error = None) =>
        LET order == pre_order(tree, <<>>)
        IN  \A k \in 1..Len(order) :
                node_at(tree, order[k]).kind \in {"Rect", "Circle", "Path"} =>
                    \E i \in 1..Len(draws) :
                        /\ draws[i].path = order[k]
                        /\ draws[i].alpha =
                               (One - node_at(tree, order[k]).transparency)
                               * (One - last_set_transparency(order, k))

C4_Witness ==
    /\ Len(draws) = 1
    /\ draws[1].path = <<1, 1, 1>>
    /\ node_at(tree, <<1>>).group_transparency = Some(50)
    /\ node_at(tree, <<1, 1>>).group_transparency = Some(25)
    /\ draws[1].alpha = (One - node_at(tree, <<1, 1, 1>>).transparency) * 75

\* The last layout pass ended in a panic (only a Text panics there).
layout_panicked == passes >= 1 /\ is_some(error) /\ unwrap(error).kind = "FontNotFound"

\* The bound the node at path hands to its children, read off the resolved tree.
RECURSIVE children_bound_of(_)
children_bound_of(path) ==
    LET n == node_at(tree, path)
    IN  CASE n.kind = "Rect" ->
                BoundingBox(n.x.val, n.y.val, n.x.val + n.width.val, n.y.val + n.height.val)
          [] n.kind = "Circle" ->
                BoundingBox(n.cx.val - n.r.val, n.cy.val - n.r.val,
                            n.cx.val + n.r.val, n.cy.val + n.r.val)
          [] n.kind = "Text" ->
                BoundingBox(n.x.val, n.y.val,
                            n.x.val + (IF n.glyph_positions = <<>> THEN 0
                                       ELSE n.glyph_positions[Len(n.glyph_positions)].max_x),
                            n.y.val + n.metrics[1].line_height)
          [] path = <<>> -> BoundingBox(0, 0, width, height)
          [] OTHER -> children_bound_of(parent_of(path))

\* No geometry of the declared node is Auto: its bound is the same in every pass.
no_auto(n) ==
    \A d \in {n.x, n.y, n.width, n.height, n.cx, n.cy, n.r} : d.kind # "Auto"

\* C5: a Rect whose x is declared Percent(p), under ancestors whose bounds do not
\* change between passes, has x = p/100 * parent_width + parent_bound.min_x after
\* one layout pass and after every further one.
C5_PercentResolvedOnce ==
    (passes >= 1 /\ ~layout_panicked) =>
        \A path \in paths_of(declared, <<>>) \ {<<>>} :
            LET n == node_at(declared, path)
                pb == children_bound_of(parent_of(path))
            IN  (/\ n.kind = "Rect"
                 /\ n.x.kind = "Pct"
                 /\ \A a \in ancestors_of(path) : no_auto(node_at(declared, a)))
                => 100 * (node_at(tree, path).x.val - pb.min_x)
                       = n.x.pct * (pb.max_x - pb.min_x)

C5_Witness ==
    /\ passes = 2
    /\ \E path \in paths_of(declared, <<>>) \ {<<>>} :
        /\ node_at(declared, path).kind = "Rect"
        /\ node_at(declared, path).x.kind = "Pct"
        /\ \A a \in ancestors_of(path) : no_auto(node_at(declared, a))
        /\ children_bound_of(parent_of(path)).min_x > 0
        /\ node_at(tree, path).x.val > children_bound_of(parent_of(path)).min_x

set_min(S) == CHOOSE m \in S : \A e \in S : m <= e
set_max(S) == CHOOSE m \in S : \A e \in S : m >= e

\* C6: the inner bound of every node is the componentwise min/max over the bounds
\* its children returned, the all-zero box without children; the inner bound of
\* (0,0,10,10) and (5,5,20,20) is (0,0,20,20).
C6_InnerBoundIsUnion ==
    \A i \in 1..Len(ltrace) :
        LET r == ltrace[i]
            kids == node_at(tree, r.path).children
            B == {r.child_bounds[k] : k \in 1..Len(r.child_bounds)}
        IN  /\ Len(r.child_bounds) = Len(kids)
            /\ \A k \in 1..Len(kids) : r.child_bounds[k] = layout_of(Append(r.path, k)).bound
            /\ kids = <<>> => r.inner_bound = BoundingBox(0, 0, 0, 0)
            /\ kids # <<>> =>
                r.inner_bound =
                    BoundingBox(set_min({b.min_x : b \in B}), set_min({b.min_y : b \in B}),
                                set_max({b.max_x : b \in B}), set_max({b.max_y : b \in B}))
            /\ r.child_bounds = <<Box(0, 0, 10, 10), Box(5, 5, 20, 20)>>
                => r.inner_bound = Box(0, 0, 20, 20)

C6_Witness ==
    /\ \E i \in 1..Len(ltrace) :
        /\ ltrace[i].child_bounds = <<Box(0, 0, 10, 10), Box(5, 5, 20, 20)>>
        /\ ltrace[i].inner_bound = Box(0, 0, 20, 20)
    /\ \E i \in 1..Len(ltrace) :
        /\ ltrace[i].child_bounds = <<>>
        /\ ltrace[i].inner_bound = BoundingBox(0, 0, 0, 0)

permutations(n) == {f \in [1..n -> 1..n] : \A a, b \in 1..n : f[a] = f[b] => a = b}

\* C7: the inner bound is the same for every order of the child bounds and for
\* every split of them into two groups folded separately and then joined.
C7_UnionOrderIndependent ==
    is_some(inner_bound) =>
        LET n == Len(child_bounds)
        IN  /\ \A f \in permutations(n) :
                fold_bounds([k \in 1..n |-> child_bounds[f[k]]]) = unwrap(inner_bound)
            /\ \A k \in 1..(n - 1) :
                union_step(fold_bounds(SubSeq(child_bounds, 1, k)),
                           fold_bounds(SubSeq(child_bounds, k + 1, n)))
                    = unwrap(inner_bound)

C7_Witness ==
    /\ is_some(inner_bound)
    /\ Len(child_bounds) = 3
    /\ child_bounds[1] # child_bounds[2]
    /\ child_bounds[2] # child_bounds[3]
    /\ child_bounds[1] # child_bounds[3]
    /\ unwrap(inner_bound) \notin {child_bounds[k] : k \in 1..3}

all_auto_rect(n) ==
    /\ n.kind = "Rect"
    /\ n.x.kind = "Auto" /\ n.y.kind = "Auto"
    /\ n.width.kind = "Auto" /\ n.height.kind = "Auto"

zero_padding(n) ==
    /\ n.padding.left.val = 0 /\ n.padding.right.val = 0
    /\ n.padding.top.val = 0 /\ n.padding.bottom.val = 0

\* C8: a Rect with Auto geometry and zero padding resolves to the inner bound of
\* its children and returns it; an inner bound of (10,10)-(90,90) gives x=10,
\* y=10, width=80, height=80 and the returned bound (10,10,90,90).
C8_AutoRectZeroPadding ==
    \A i \in 1..Len(ltrace) :
        LET r == ltrace[i]
            n == node_at(tree, r.path)
        IN  (all_auto_rect(r.before) /\ zero_padding(n)) =>
                /\ n.x.val = r.inner_bound.min_x
                /\ n.y.val = r.inner_bound.min_y
                /\ n.width.val = r.inner_bound.max_x - r.inner_bound.min_x
                /\ n.height.val = r.inner_bound.max_y - r.inner_bound.min_y
                /\ r.bound = r.inner_bound
                /\ r.inner_bound = Box(10, 10, 90, 90) =>
                    /\ <<n.x.val, n.y.val, n.width.val, n.height.val>>
                            = <<10 * Unit, 10 * Unit, 80 * Unit, 80 * Unit>>
                    /\ r.bound = Box(10, 10, 90, 90)

C8_Witness ==
    \E i \in 1..Len(ltrace) :
        LET r == ltrace[i]
            n == node_at(tree, r.path)
        IN  /\ all_auto_rect(r.before) /\ zero_padding(n)
            /\ Len(r.child_bounds) = 2
            /\ r.inner_bound = Box(10, 10, 90, 90)
            /\ <<n.x.val, n.y.val, n.width.val, n.height.val>>
                            = <<10 * Unit, 10 * Unit, 80 * Unit, 80 * Unit>>
            /\ r.bound = Box(10, 10, 90, 90)

\* C9: a Rect whose x, y, width and height are all Auto returns the inner bound of
\* its children expanded outward by its padding on each side.
C9_AutoRectExpandedByPadding ==
    \A i \in 1..Len(ltrace) :
        LET r == ltrace[i]
            n == node_at(tree, r.path)
        IN  all_auto_rect(r.before) =>
                r.bound = BoundingBox(r.inner_bound.min_x - n.padding.left.val,
                                      r.inner_bound.min_y - n.padding.top.val,
                                      r.inner_bound.max_x + n.padding.right.val,
                                      r.inner_bound.max_y + n.padding.bottom.val)

\* C10: a Circle whose r is Auto gets r = max(inner_width + padding.left +
\* padding.right, inner_height + padding.top + padding.bottom) / 2; an inner bound
\* 40 wide and 20 high with zero padding gives r = 20.
C10_AutoCircleRadius ==
    \A i \in 1..Len(ltrace) :
        LET r == ltrace[i]
            n == node_at(tree, r.path)
            iw == r.inner_bound.max_x - r.inner_bound.min_x
            ih == r.inner_bound.max_y - r.inner_bound.min_y
            w == iw + n.padding.left.val + n.padding.right.val
            h == ih + n.padding.top.val + n.padding.bottom.val
        IN  (r.kind = "Circle" /\ r.before.r.kind = "Auto") =>
                /\ 2 * n.r.val = IF w >= h THEN w ELSE h
                /\ (iw = 40 * Unit /\ ih = 20 * Unit /\ zero_padding(n)) => n.r.val = 20 * Unit

C10_Witness ==
    \E i \in 1..Len(ltrace) :
        LET r == ltrace[i]
            n == node_at(tree, r.path)
        IN  /\ r.kind = "Circle" /\ r.before.r.kind = "Auto" /\ zero_padding(n)
            /\ Len(r.child_bounds) = 1
            /\ r.inner_bound.max_x - r.inner_bound.min_x = 40 * Unit
            /\ r.inner_bound.max_y - r.inner_bound.min_y = 20 * Unit
            /\ n.r.val = 20 * Unit

\* ---- the path interpreter
\* Commands that make a call on the nanovg path (a control point makes none).
emits(c) == c.kind \notin {"BezCtrl", "BezCtrlRel"}

\* Number of calls the commands cmd[1..i] make.
calls_upto(cmd, i) == Cardinality({k \in 1..i : emits(cmd[k])})

\* Indexes of the control points declared before command k.
ctrls_before(cmd, k) == {j \in 1..(k - 1) : cmd[j].kind \in {"BezCtrl", "BezCtrlRel"}}

ClaimedCmds ==
    <<[kind |-> "Move", xy |-> <<0, 0>>], [kind |-> "BezCtrl", xy |-> <<10, 0>>],
      [kind |-> "BezCtrl", xy |-> <<10, 10>>], [kind |-> "CubBezTo", xy |-> <<0, 10>>]>>

\* C11: a drawn Path has one cubic segment per CubBezTo, ending at its point, and
\* when the two control points declared last before it are both absolute its
\* controls are those two in declaration order; [Move(0,0), BezCtrl(10,0),
\* BezCtrl(10,10), CubBezTo(0,10)] draws a move to (0,0) and one cubic to (0,10)
\* with controls (10,0) then (10,10).
C11_CubicFromLastTwoControls ==
    \A i \in 1..Len(draws) :
        LET d == draws[i]
            cmd == node_at(tree, d.path).cmd
        IN  d.kind = "Path" =>
            /\ Cardinality({k \in 1..Len(d.geometry) : d.geometry[k].op = "cubic_bezier_to"})
                 = Cardinality({k \in 1..Len(cmd) : cmd[k].kind \in {"CubBezTo", "CubBezToRel"}})
            /\ \A k \in 1..Len(cmd) :
                    cmd[k].kind = "CubBezTo" =>
                        LET seg == d.geometry[calls_upto(cmd, k)]
                            ctrls == ctrls_before(cmd, k)
                            second == set_max(ctrls)
                            first == set_max(ctrls \ {second})
                        IN  /\ seg.op = "cubic_bezier_to"
                            /\ seg.to = cmd[k].xy
                            /\ (/\ Cardinality(ctrls) >= 2
                                /\ cmd[first].kind = "BezCtrl"
                                /\ cmd[second].kind = "BezCtrl")
                               => (seg.ctrl1 = cmd[first].xy /\ seg.ctrl2 = cmd[second].xy)
            /\ cmd = ClaimedCmds =>
                    d.geometry =
                        <<[op |-> "move_to", to |-> <<0, 0>>, ctrl1 |-> <<>>, ctrl2 |-> <<>>],
                          [op |-> "cubic_bezier_to", to |-> <<0, 10>>,
                           ctrl1 |-> <<10, 0>>, ctrl2 |-> <<10, 10>>]>>

C11_Witness ==
    /\ \E i \in 1..Len(draws) :
        /\ draws[i].kind = "Path"
        /\ node_at(tree, draws[i].path).cmd = ClaimedCmds
        /\ Len(draws[i].geometry) = 2
        /\ draws[i].geometry[2].ctrl1 = <<10, 0>>
        /\ draws[i].geometry[2].ctrl2 = <<10, 10>>
    /\ error = None

SupportedCmds ==
    {"Move", "MoveRel", "Line", "LineRel", "LineAlonX", "LineAlonXRel", "LineAlonY",
     "LineAlonYRel", "Close", "BezCtrl", "BezCtrlRel", "QuadBezTo", "QuadBezToRel",
     "CubBezTo", "CubBezToRel"}

unsupported_at(n) == {k \in 1..Len(n.cmd) : n.cmd[k].kind \notin SupportedCmds}
has_unsupported(n) == n.kind = "Path" /\ unsupported_at(n) # {}
unknown_font(n) == n.kind = "Text" /\ n.font_name \notin fonts

\* C12: when a render call meets a Path with a command of an unsupported kind (and
\* no Text with an unknown font), the call ends in an UnsupportedPathCommand error
\* at the first such Path; the calls made on that path are those of the commands
\* before the unsupported one, it is neither filled nor stroked, and nothing is
\* drawn for it or for any node after it in document order.
C12_UnsupportedCommandStops ==
    renders >= 1 =>
        LET order == pre_order(tree, <<>>)
            bad == {k \in 1..Len(order) : has_unsupported(node_at(tree, order[k]))}
            no_font == {k \in 1..Len(order) : unknown_font(node_at(tree, order[k]))}
        IN  (bad # {} /\ no_font = {}) =>
                LET f == set_min(bad)
                    n == node_at(tree, order[f])
                    stop == set_min(unsupported_at(n))
                IN  /\ is_some(error)
                    /\ unwrap(error).kind = "UnsupportedPathCommand"
                    /\ unwrap(error).path = order[f]
                    /\ Len(unwrap(error).segments) = calls_upto(n.cmd, stop - 1)
                    /\ \A i \in 1..Len(draws) : index_in(order, draws[i].path) < f
                    /\ \A k \in 1..(f - 1) :
                            node_at(tree, order[k]).kind \in {"Rect", "Circle", "Path", "Text"}
                                => \E i \in 1..Len(draws) : draws[i].path = order[k]

C12_Witness ==
    /\ is_some(error)
    /\ unwrap(error).kind = "UnsupportedPathCommand"
    /\ Len(unwrap(error).segments) = 2
    /\ Len(node_at(tree, unwrap(error).path).cmd) = 4
    /\ Len(draws) = 1
    /\ Len(pre_order(tree, <<>>)) = 4

\* ---- errors and order of the passes
\* A node without its children.
shape_of(n) == [n EXCEPT !.children = <<>>]

\* C13: when a layout pass runs over a tree with a Text whose font is not
\* registered, the call ends in a FontNotFound error at the first such Text, every
\* node after it in document order is left as it was declared, only nodes before
\* it were resolved, and nothing is drawn in that render call.
C13_FontNotFoundAbortsLayout ==
    passes >= 1 =>
        LET order == pre_order(declared, <<>>)
            no_font == {k \in 1..Len(order) : unknown_font(node_at(declared, order[k]))}
        IN  no_font # {} =>
                LET f == set_min(no_font)
                IN  /\ is_some(error)
                    /\ unwrap(error).kind = "FontNotFound"
                    /\ unwrap(error).path = order[f]
                    /\ \A k \in (f + 1)..Len(order) :
                            shape_of(node_at(tree, order[k]))
                                = shape_of(node_at(declared, order[k]))
                    /\ \A i \in 1..Len(ltrace) : index_in(order, ltrace[i].path) < f
                    /\ draws = <<>>
                    /\ rtrace = <<>>

C13_Witness ==
    /\ layout_panicked
    /\ draws = <<>>
    /\ ltrace # <<>>
    /\ LET order == pre_order(declared, <<>>)
           f == index_in(order, unwrap(error).path)
       IN  /\ \E k \in (f + 1)..Len(order) :
                /\ node_at(declared, order[k]).x.kind = "Pct"
                /\ node_at(tree, order[k]).x.kind = "Pct"
           /\ \E k \in 1..(f - 1) :
                /\ node_at(declared, order[k]).x.kind = "Pct"
                /\ node_at(tree, order[k]).x.kind = "Px"

geometric(n) == n.kind \in {"Rect", "Circle", "Path", "Text"}
geometric_path(path) == geometric(node_at(tree, path))

\* path p comes before path q in document order: p is a proper ancestor of q, or
\* at the first index where they differ p takes the earlier child.
doc_before(p, q) ==
    \/ Len(p) < Len(q) /\ SubSeq(q, 1, Len(p)) = p
    \/ \E k \in 1..Min(Len(p), Len(q)) :
            /\ SubSeq(p, 1, k - 1) = SubSeq(q, 1, k - 1)
            /\ p[k] < q[k]

\* C14: a render call that ends without error leaves exactly one draw
\* instruction for each Rect, Circle, Path and Text of the tree and none for any
\* other node, in document pre-order: a node before its descendants, the subtree
\* of an earlier sibling before that of a later one.
C14_OneDrawPerNodeInPreOrder ==
    (renders >= 1 /\ error = None) =>
        /\ \A path \in paths_of(tree, <<>>) :
                Cardinality({i \in 1..Len(draws) : draws[i].path = path})
                    = IF geometric(node_at(tree, path)) THEN 1 ELSE 0
        /\ \A i \in 1..Len(draws) :
                /\ draws[i].path \in paths_of(tree, <<>>)
                /\ draws[i].kind = node_at(tree, draws[i].path).kind
        /\ \A i, j \in 1..Len(draws) : i < j => doc_before(draws[i].path, draws[j].path)
        /\ [i \in 1..Len(draws) |-> draws[i].path]
             = SelectSeq(pre_order(tree, <<>>), geometric_path)

C14_Witness ==
    /\ error = None
    /\ Len(draws) = 3
    /\ node_at(tree, <<1>>).kind = "Group"
    /\ draws[1].kind = "Path" /\ draws[1].path = <<1, 1>>
    /\ draws[2].path = <<1, 1, 1>>
    /\ draws[3].path = <<2>>

\* The layout events of the last render call name every node of the tree once.
recalc_once ==
    \A path \in paths_of(tree, <<>>) :
        Cardinality({k \in 1..Len(events) :
                        events[k].op = "recalc" /\ events[k].path = path}) = 1

no_recalc == \A k \in 1..Len(events) : events[k].op # "recalc"

\* Every drawn node of the last render call has its draw event.
composed == Len(rtrace) >= 1 /\ \A i \in 1..Len(draws) :
                \E k \in 1..Len(events) :
                    events[k].op = "draw" /\ events[k].path = draws[i].path

\* C15: in every render call no node is resolved after a node was drawn, and the
\* draw instructions carry the geometry the layout pass left in the tree; a call
\* whose need_recalc reports false resolves nothing and still composes; a call
\* whose need_recalc reports true or nothing runs one layout pass, which (when it
\* meets no error) resolves every node exactly once.
C15_LayoutBeforeComposition ==
    /\ [](\A i, j \in 1..Len(events) :
            (i < j /\ events[i].op = "draw") => events[j].op = "draw")
    /\ [](\A i \in 1..Len(draws) :
            draws[i].kind \in {"Rect", "Circle"} =>
                draws[i].geometry = shape_geometry(node_at(tree, draws[i].path)))
    /\ [][\A need_recalc \in NeedRecalc :
            Render(need_recalc) =>
                /\ need_recalc = Some(FALSE) =>
                        (passes' = passes /\ no_recalc' /\ composed')
                /\ need_recalc \in {None, Some(TRUE)} =>
                        /\ passes' = passes + 1
                        /\ error' = None => (recalc_once' /\ composed')]_vars

C15_Witness ==
    /\ renders = 2
    /\ passes = 1
    /\ error = None
    /\ no_recalc
    /\ Len(draws) >= 2
    /\ \E path \in paths_of(declared, <<>>) :
            node_at(declared, path).x.kind = "Pct" /\ node_at(tree, path).x.kind = "Px"

\* C16: the composition pass leaves the tree as it found it: a render call that
\* skips the layout pass leaves the tree unchanged, and one that runs it leaves
\* the tree the layout pass produced.
C16_CompositionKeepsTree ==
    [][\A need_recalc \in NeedRecalc :
        Render(need_recalc) =>
            tree' = IF need_recalc = Some(FALSE) THEN tree
                    ELSE recalc_composite(tree, <<>>, BoundingBox(0, 0, width, height),
                                          Identity, ShapeDefaultsDefault).node]_vars

C16_Witness ==
    /\ renders = 2
    /\ passes = 1
    /\ ltrace = <<>>
    /\ tree # declared
    /\ \E i \in 1..Len(rtrace) :
            rtrace[i].kind = "Group" /\ rtrace[i].after # rtrace[i].before

\* ---- degenerate bounds and the bounds handed up and down
zero_size(b) == b.max_x = b.min_x /\ b.max_y = b.min_y

all_pct(n) ==
    /\ \A d \in {n.padding.left, n.padding.right, n.padding.top, n.padding.bottom} :
            d.kind = "Pct"
    /\ \/ n.kind = "Rect" /\ \A d \in {n.x, n.y, n.width, n.height} : d.kind = "Pct"
       \/ n.kind = "Circle" /\ \A d \in {n.cx, n.cy, n.r} : d.kind = "Pct"

\* C17: a Rect or Circle whose position, size and padding are all Percent, laid
\* out under a parent bound of zero width and height, sits at the parent's corner
\* with zero size and zero padding and hands a zero-size bound on, and the render
\* call ends without error having resolved every node.
C17_ZeroParentBoundIsTotal ==
    \A i \in 1..Len(ltrace) :
        LET r == ltrace[i]
            n == node_at(tree, r.path)
        IN  (all_pct(r.before) /\ zero_size(r.parent_bound)) =>
                /\ zero_padding(n)
                /\ r.kind = "Rect" =>
                        <<n.x.val, n.y.val, n.width.val, n.height.val>>
                            = <<r.parent_bound.min_x, r.parent_bound.min_y, 0, 0>>
                /\ r.kind = "Circle" =>
                        <<n.cx.val, n.cy.val, n.r.val>>
                            = <<r.parent_bound.min_x, r.parent_bound.min_y, 0>>
                /\ zero_size(r.children_bound)
                /\ zero_size(r.bound)
                /\ error = None
                /\ {ltrace[k].path : k \in 1..Len(ltrace)} = paths_of(tree, <<>>)

C17_Witness ==
    /\ error = None
    /\ \E i, j \in 1..Len(ltrace) :
        /\ all_pct(ltrace[i].before) /\ ltrace[i].kind = "Rect"
        /\ all_pct(ltrace[j].before) /\ ltrace[j].kind = "Circle"
        /\ ltrace[i].parent_bound = Box(10, 10, 10, 10)
        /\ ltrace[j].parent_bound = Box(10, 10, 10, 10)
        /\ node_at(tree, ltrace[i].path).x.val = 10 * Unit
        /\ node_at(tree, ltrace[i].path).width.val = 0
        /\ node_at(tree, ltrace[j].path).r.val = 0
    /\ Len(draws) = 4

\* C18: the bound a Group with children returns from the layout pass is the
\* union of the bounds its children returned.
C18_GroupReturnsChildrenUnion ==
    \A i \in 1..Len(ltrace) :
        LET r == ltrace[i]
            B == {r.child_bounds[k] : k \in 1..Len(r.child_bounds)}
        IN  (r.kind = "Group" /\ r.child_bounds # <<>>) =>
                r.bound =
                    BoundingBox(set_min({b.min_x : b \in B}), set_min({b.min_y : b \in B}),
                                set_max({b.max_x : b \in B}), set_max({b.max_y : b \in B}))

not_path(n) == n.kind # "Path"

some_auto(n) ==
    \/ n.kind = "Rect" /\ \E d \in {n.x, n.y, n.width, n.height} : d.kind = "Auto"
    \/ n.kind = "Circle" /\ \E d \in {n.cx, n.cy, n.r} : d.kind = "Auto"

geometry_of(n) == <<n.x.val, n.y.val, n.width.val, n.height.val, n.cx.val, n.cy.val, n.r.val>>

\* C19: in the first layout pass an auto-sized Rect or Circle with a Path among
\* its children resolves to the geometry it resolves to without its Path children.
C19_PathChildrenDoNotSize ==
    passes = 1 =>
        \A i \in 1..Len(ltrace) :
            LET r == ltrace[i]
                d == node_at(declared, r.path)
                without == [d EXCEPT !.children = SelectSeq(d.children, not_path)]
            IN  (some_auto(r.before) /\ without.children # d.children) =>
                    geometry_of(node_at(tree, r.path))
                        = geometry_of(recalc_composite(without, r.path, r.parent_bound,
                                                       r.parent_global_transform,
                                                       ShapeDefaultsDefault).node)

\* A dimension as the top-down step resolves it against base, offset by min when
\* it is a position.
resolved(d, base, min) ==
    IF d.kind = "Pct" THEN (d.pct * base) \div 100 + min ELSE d.val

\* The bound of the node of record r after its top-down step.
own_bound(r) ==
    LET w == r.parent_bound.max_x - r.parent_bound.min_x
        h == r.parent_bound.max_y - r.parent_bound.min_y
        b == r.before
        n == node_at(tree, r.path)
    IN  CASE r.kind = "Rect" ->
                LET x == resolved(b.x, w, r.parent_bound.min_x)
                    y == resolved(b.y, h, r.parent_bound.min_y)
                IN  BoundingBox(x, y, x + resolved(b.width, w, 0), y + resolved(b.height, h, 0))
          [] r.kind = "Circle" ->
                LET cx == resolved(b.cx, w, r.parent_bound.min_x)
                    cy == resolved(b.cy, h, r.parent_bound.min_y)
                    rr == resolved(b.r, IF w < h THEN w ELSE h, 0)
                IN  BoundingBox(cx - rr, cy - rr, cx + rr, cy + rr)
          [] r.kind = "Text" ->
                BoundingBox(n.x.val, n.y.val,
                            n.x.val + (IF n.glyph_positions = <<>> THEN 0
                                       ELSE n.glyph_positions[Len(n.glyph_positions)].max_x),
                            n.y.val + n.metrics[1].line_height)

\* C20: every child of a node is laid out against the same parent_bound and the
\* same global transform: the node's own top-down bound when the node is a Rect,
\* Circle or Text, the parent_bound the node itself got when it is a Path, a Group
\* or the root, and the transform the node composed.
C20_ChildrenGetNodeBound ==
    \A i \in 1..Len(ltrace) :
        LET r == ltrace[i]
        IN  \A k \in 1..Len(r.child_bounds) :
                LET c == layout_of(Append(r.path, k))
                IN  /\ c.parent_bound =
                            IF r.kind \in {"Rect", "Circle", "Text"} THEN own_bound(r)
                            ELSE r.parent_bound
                    /\ c.parent_global_transform = r.children_transform
                    /\ c.parent_bound = layout_of(Append(r.path, 1)).parent_bound
                    /\ c.parent_global_transform
                            = layout_of(Append(r.path, 1)).parent_global_transform

C20_Witness ==
    /\ \E i \in 1..Len(ltrace) :
        /\ ltrace[i].kind = "Text"
        /\ Len(ltrace[i].child_bounds) = 1
        /\ layout_of(Append(ltrace[i].path, 1)).parent_bound = own_bound(ltrace[i])
        /\ own_bound(ltrace[i]) # ltrace[i].parent_bound
        /\ ltrace[i].children_transform # Identity
    /\ \E i \in 1..Len(ltrace) :
        /\ ltrace[i].kind = "Rect"
        /\ ltrace[i].before.x.kind = "Pct"

\* Widths, heights, radii and paddings of the declared tree are not negative.
declared_nonneg ==
    \A path \in paths_of(declared, <<>>) :
        LET n == node_at(declared, path)
        IN  \A d \in {n.width, n.height, n.r, n.padding.left, n.padding.right,
                      n.padding.top, n.padding.bottom} : d.val >= 0 /\ d.pct >= 0

well_formed(b) == b.min_x <= b.max_x /\ b.min_y <= b.max_y

\* C21: for a tree whose declared widths, heights, radii and paddings are not
\* negative, every bound a call of the layout pass returns has min_x <= max_x and
\* min_y <= max_y.
C21_ReturnedBoundsWellFormed ==
    declared_nonneg => \A i \in 1..Len(ltrace) : well_formed(ltrace[i].bound)

\* The transform the node at path hands to its children, read off the resolved
\* tree: the cached global matrix, moved by the left and top padding under a Rect
\* or Circle; a composite without a shape hands on what it got, the root the
\* identity.
RECURSIVE propagated_by(_)
propagated_by(path) ==
    LET n == node_at(tree, path)
        global == unwrap(n.transform.calculated)
    IN  CASE n.kind \in {"Rect", "Circle"} ->
                <<global[1], global[2], global[3], global[4],
                  global[5] + n.padding.left.val, global[6] + n.padding.top.val>>
          [] n.kind \in {"Text", "Path", "Group"} -> global
          [] path = <<>> -> Identity
          [] OTHER -> propagated_by(parent_of(path))

local_of(n) == IF n.transform.local = <<>> THEN Identity ELSE n.transform.local[1]

\* C22: after a layout pass the cached global matrix of every node is its local
\* matrix when the transform is absolute, else the matrix its parent hands on
\* composed with its local matrix; a Rect or Circle hands on its global matrix
\* moved by (padding.left, padding.top), a Text, Path or Group its global matrix.
C22_GlobalTransformComposed ==
    (passes >= 1 /\ ~layout_panicked) =>
        \A path \in paths_of(tree, <<>>) \ {<<>>} :
            LET n == node_at(tree, path)
            IN  n.kind # "None" =>
                    n.transform.calculated =
                        Some(IF n.transform.absolute THEN local_of(n)
                             ELSE matrix_mul(propagated_by(parent_of(path)), local_of(n)))

C22_Witness ==
    /\ passes >= 1
    /\ node_at(tree, <<1>>).kind = "Rect"
    /\ node_at(tree, <<1>>).padding.left.val = 10 * Unit
    /\ node_at(tree, <<1>>).padding.top.val = 20 * Unit
    /\ node_at(tree, <<1>>).transform.calculated = Some(Translation(5, 7))
    /\ node_at(tree, <<1, 1>>).kind = "Group"
    /\ node_at(tree, <<1, 1>>).transform.calculated = Some(Matrix(2, 0, 0, 2, 16, 28))
    /\ node_at(tree, <<1, 1, 1>>).transform.absolute
    /\ node_at(tree, <<1, 1, 1>>).transform.calculated = Some(Translation(3, 0))

\* The command interpreted last, and the cursor it found.
last_cmd == path_done[Len(path_done)]
cursor_before == path_prev.last_xy

RelKinds ==
    {"MoveRel", "LineRel", "LineAlonXRel", "LineAlonYRel", "BezCtrlRel", "QuadBezToRel",
     "CubBezToRel"}

\* The absolute command that names the point a relative one reaches from cursor.
counterpart(cmd, cursor) ==
    LET to == <<cursor[1] + cmd.xy[1], cursor[2] + cmd.xy[2]>>
    IN  CASE cmd.kind = "MoveRel" -> Move(to)
          [] cmd.kind = "LineRel" -> Line(to)
          [] cmd.kind = "LineAlonXRel" -> LineAlonX(to[1])
          [] cmd.kind = "LineAlonYRel" -> LineAlonY(to[2])
          [] cmd.kind = "BezCtrlRel" -> BezCtrl(to)
          [] cmd.kind = "QuadBezToRel" -> QuadBezTo(to)
          [] cmd.kind = "CubBezToRel" -> CubBezTo(to)

\* C23: a relative path command leaves the cursor, the control points and the
\* calls made as its absolute counterpart given cursor + argument does:
\* LineAlonXRel and LineAlonYRel add to one axis and keep the other, BezCtrlRel
\* pushes the control point cursor + argument.
C23_RelativeIsAbsoluteFromCursor ==
    (path_done # <<>> /\ last_cmd.kind \in RelKinds) =>
        LET to == <<cursor_before[1] + last_cmd.xy[1], cursor_before[2] + last_cmd.xy[2]>>
        IN  /\ path_state = path_cmd(path_prev, counterpart(last_cmd, cursor_before))
            /\ last_cmd.kind \in {"MoveRel", "LineRel", "QuadBezToRel", "CubBezToRel"} =>
                    /\ path_state.last_xy = to
                    /\ path_state.segments[Len(path_state.segments)].to = to
            /\ last_cmd.kind = "LineAlonXRel" =>
                    path_state.last_xy = <<cursor_before[1] + last_cmd.xy[1], cursor_before[2]>>
            /\ last_cmd.kind = "LineAlonYRel" =>
                    path_state.last_xy = <<cursor_before[1], cursor_before[2] + last_cmd.xy[2]>>
            /\ last_cmd.kind = "BezCtrlRel" => path_state.bez_ctrls[2] = to

C23_Witness ==
    /\ Len(path_done) = 3
    /\ path_done[2].kind = "BezCtrlRel"
    /\ last_cmd = CubBezToRel(<<3, 4>>)
    /\ cursor_before = <<-2, 6>>
    /\ path_state.last_xy = <<1, 10>>
    /\ path_state.segments[Len(path_state.segments)]
            = cubic_bezier_to(<<1, 10>>, <<0, 0>>, <<1, 10>>)

\* The calls the last command made on the nanovg path.
emitted == SubSeq(path_state.segments, Len(path_prev.segments) + 1, Len(path_state.segments))

\* C24: Close, BezCtrl and BezCtrlRel leave the cursor where it was; LineAlonX
\* and LineAlonXRel keep the cursor's y, LineAlonY and LineAlonYRel keep its x;
\* the point of a move_to, line_to or curve call a command makes is the cursor
\* after the command.
C24_PathCommandFrame ==
    path_done # <<>> =>
        /\ last_cmd.kind \in {"Close", "BezCtrl", "BezCtrlRel"} =>
                path_state.last_xy = cursor_before
        /\ last_cmd.kind \in {"LineAlonX", "LineAlonXRel"} =>
                path_state.last_xy[2] = cursor_before[2]
        /\ last_cmd.kind \in {"LineAlonY", "LineAlonYRel"} =>
                path_state.last_xy[1] = cursor_before[1]
        /\ \A k \in 1..Len(emitted) :
                emitted[k].op \in {"move_to", "line_to", "quad_bezier_to", "cubic_bezier_to"}
                    => emitted[k].to = path_state.last_xy

C24_Witness ==
    /\ Len(path_done) = 3
    /\ path_done[1] = MoveRel(<<-2, 6>>)
    /\ path_done[2] = LineAlonXRel(7)
    /\ last_cmd = Close
    /\ path_prev.segments[2] = line_to(<<5, 6>>)
    /\ path_state.last_xy = <<5, 6>>
    /\ emitted = <<close>>

is_bez_ctrl(cmd) == cmd.kind \in {"BezCtrl", "BezCtrlRel"}

\* The control point command k of path_done declares: its argument, counted from
\* the cursor the commands before it left when it is relative.
declared_ctrl(k) ==
    IF path_done[k].kind = "BezCtrl" THEN path_done[k].xy
    ELSE LET cursor == path_cmds(SubSeq(path_done, 1, k - 1), 1, PathStateInit).last_xy
         IN  <<cursor[1] + path_done[k].xy[1], cursor[2] + path_done[k].xy[2]>>

\* The control points declared so far, in declaration order.
declared_ctrls ==
    LET at == {k \in 1..Len(path_done) : is_bez_ctrl(path_done[k])}
        nth(n) == CHOOSE k \in at : Cardinality({j \in at : j <= k}) = n
    IN  [n \in 1..Cardinality(at) |-> declared_ctrl(nth(n))]

\* C25: bez_ctrls holds the two control points declared last, in declaration
\* order, the origin in a slot not yet declared: BezCtrl and BezCtrlRel move
\* slot 1 to slot 0 and store the new point in slot 1, no other command changes
\* bez_ctrls, and QuadBezTo hands slot 1 over as its control point.
C25_ControlPointWindow ==
    LET n == Len(declared_ctrls)
    IN  /\ path_state.bez_ctrls[2] = IF n >= 1 THEN declared_ctrls[n] ELSE <<0, 0>>
        /\ path_state.bez_ctrls[1] = IF n >= 2 THEN declared_ctrls[n - 1] ELSE <<0, 0>>
        /\ path_done # <<>> =>
            /\ is_bez_ctrl(last_cmd) =>
                    /\ path_state.bez_ctrls[1] = path_prev.bez_ctrls[2]
                    /\ path_state.bez_ctrls[2] = declared_ctrl(Len(path_done))
            /\ ~is_bez_ctrl(last_cmd) => path_state.bez_ctrls = path_prev.bez_ctrls
            /\ last_cmd.kind \in {"QuadBezTo", "QuadBezToRel"} =>
                    emitted = <<[op |-> "quad_bezier_to", to |-> path_state.last_xy,
                                 ctrl1 |-> path_prev.bez_ctrls[2], ctrl2 |-> <<>>]>>

C25_Witness ==
    /\ path_done = <<BezCtrl(<<8, 1>>), BezCtrl(<<3, 4>>), BezCtrl(<<-2, 6>>)>>
    /\ path_prev.bez_ctrls = <<(<<8, 1>>), (<<3, 4>>)>>
    /\ path_state.bez_ctrls = <<(<<3, 4>>), (<<-2, 6>>)>>

\* Positions in the calls of a draw instruction at which op is called.
calls_of(d, op) == {k \in 1..Len(d.calls) : d.calls[k].op = op}

\* C26: the draw instruction of a Rect, Circle or Path makes the fill call before
\* the stroke call, makes no fill call when neither the node nor the defaults has
\* a fill and no stroke call when neither has a stroke, and makes one call of each
\* for a paint that is there; a Path makes all its segment calls before both.
C26_FillBeforeStroke ==
    \A i \in 1..Len(draws) :
        LET d == draws[i]
            n == node_at(tree, d.path)
            current == visit_of(d.path).before
            fills == calls_of(d, "fill")
            strokes == calls_of(d, "stroke")
        IN  d.kind \in {"Rect", "Circle", "Path"} =>
            /\ \A f \in fills : \A s \in strokes : f < s
            /\ (n.fill = <<>> /\ current.fill = <<>>) => fills = {}
            /\ (n.stroke = <<>> /\ current.stroke = <<>>) => strokes = {}
            /\ (n.fill # <<>> \/ current.fill # <<>>) => Cardinality(fills) = 1
            /\ (n.stroke # <<>> \/ current.stroke # <<>>) => Cardinality(strokes) = 1
            /\ \A k \in 1..Len(d.calls) :
                    k \notin fills \cup strokes => \A p \in fills \cup strokes : k < p

C26_Witness ==
    /\ \E i \in 1..Len(draws) :
        /\ draws[i].kind = "Path"
        /\ Len(draws[i].calls) = 6
        /\ draws[i].calls[4].op = "close"
        /\ draws[i].calls[5] = [op |-> "fill", args |-> <<"red">>]
        /\ draws[i].calls[6] = [op |-> "stroke", args |-> <<"white", 1>>]
    /\ draws[1].kind = "Rect"
    /\ Len(draws[1].calls) = 1

\* The clip as nanovg gets it: the resolved scalars of a scissor.
same_clip(drawn, clip) ==
    /\ drawn.kind = clip.kind
    /\ clip.kind = "Scissor" =>
            <<drawn.x, drawn.y, drawn.width, drawn.height>>
                = <<clip.x.val, clip.y.val, clip.width.val, clip.height.val>>

\* C27: the clip of every draw instruction is the node's own clip when that is
\* not None, else the clip of the defaults current at its visit; the visit of a
\* Group puts the Group's clip into the defaults when it is not None and leaves
\* the clip of the defaults alone when it is None.
C27_OwnClipElseDefaults ==
    /\ \A i \in 1..Len(draws) :
        LET d == draws[i]
            n == node_at(tree, d.path)
            current == visit_of(d.path).before
        IN  same_clip(d.clip, IF n.clip.kind # "None" THEN n.clip ELSE current.clip)
    /\ \A i \in 1..Len(rtrace) :
        LET v == rtrace[i]
            g == node_at(tree, v.path)
        IN  v.kind = "Group" =>
                v.after.clip = IF g.clip.kind # "None" THEN g.clip ELSE v.before.clip

C27_Witness ==
    /\ passes >= 1
    /\ node_at(tree, <<2>>).clip.kind = "Scissor"
    /\ node_at(tree, <<2, 2>>).clip.kind = "None"
    /\ visit_of(<<2, 2>>).after.clip = node_at(tree, <<2>>).clip
    /\ node_at(tree, <<2, 2, 1>>).clip.kind = "None"
    /\ \E i \in 1..Len(draws) :
        /\ draws[i].path = <<2, 2, 1>>
        /\ draws[i].clip.kind = "Scissor"
        /\ draws[i].clip.width = 100 * Unit
        /\ draws[i].clip.height = 50 * Unit
    /\ \E i \in 1..Len(draws) :
        /\ node_at(tree, draws[i].path).clip = OwnClip
        /\ visit_of(draws[i].path).before.clip.kind = "Scissor"
        /\ draws[i].clip.width = 20 * Unit

\* C28: a Text is drawn with a colour, never a gradient: the paint of its own
\* fill when it has one, else of the defaults' fill, when that paint is a colour,
\* and the default colour when that paint is a gradient or there is no fill; the
\* alpha of the colour is multiplied by (1 - defaults.transparency) and by
\* (1 - text.transparency).
C28_TextColor ==
    \A i \in 1..Len(draws) :
        LET d == draws[i]
            n == node_at(tree, d.path)
            current == visit_of(d.path).before
            effective == IF n.fill # <<>> THEN n.fill ELSE current.fill
            color == IF effective # <<>> /\ effective[1].paint # "gradient"
                     THEN effective[1].paint ELSE "default"
        IN  d.kind = "Text" =>
            /\ d.fill = <<color>>
            /\ d.fill # <<"gradient">>
            /\ d.alpha = (IF color = "glass" THEN 50 ELSE One)
                         * (One - current.transparency) * (One - n.transparency)

C28_Witness ==
    \E i, j \in 1..Len(draws) :
        /\ draws[i].kind = "Text"
        /\ draws[i].path = <<2, 1>>
        /\ node_at(tree, <<2, 1>>).fill = Some(Fill("gradient"))
        /\ visit_of(<<2, 1>>).before.fill = Some(Fill("red"))
        /\ visit_of(<<2, 1>>).before.transparency = 50
        /\ draws[i].fill = Some("default")
        /\ draws[i].alpha = One * 50 * One
        /\ draws[j].path = <<2, 2, 1>>
        /\ visit_of(<<2, 2, 1>>).before.fill = Some(Fill("blue"))
        /\ draws[j].fill = Some("default")

\* Number of calls of recalc_composite / render_composite on the node at path in
\* the last render call.
recalcs_of(path) == Cardinality({i \in 1..Len(ltrace) : ltrace[i].path = path})
visits_of(path) == Cardinality({i \in 1..Len(rtrace) : rtrace[i].path = path})

\* The last layout pass returned from the root.
layout_returned == ltrace # <<>> /\ ltrace[Len(ltrace)].path = <<>>

\* C29: a render call on a tree ends after as many calls of recalc_composite
\* and of render_composite as the tree has nodes: the layout pass returns from
\* the root having been called on every node exactly once, and so does the
\* composition pass (a pass a panic ended was called on no node twice).
C29_PassesVisitEachNodeOnce ==
    /\ renders >= 1 =>
        /\ \A i \in 1..Len(ltrace) : ltrace[i].path \in paths_of(tree, <<>>)
        /\ \A i \in 1..Len(rtrace) : rtrace[i].path \in paths_of(tree, <<>>)
        /\ \A path \in paths_of(tree, <<>>) : recalcs_of(path) <= 1 /\ visits_of(path) <= 1
        /\ (ltrace # <<>> /\ ~layout_panicked) =>
                /\ layout_returned
                /\ \A path \in paths_of(tree, <<>>) : recalcs_of(path) = 1
                /\ Len(ltrace) = Cardinality(paths_of(tree, <<>>))
        /\ error = None =>
                /\ \A path \in paths_of(tree, <<>>) : visits_of(path) = 1
                /\ Len(rtrace) = Cardinality(paths_of(tree, <<>>))

C29_Witness ==
    /\ renders >= 1
    /\ error = None
    /\ <<1, 1, 1>> \in paths_of(tree, <<>>)
    /\ <<1, 2>> \in paths_of(tree, <<>>)
    /\ Cardinality(paths_of(tree, <<>>)) = 5
    /\ Len(ltrace) = 5
    /\ Len(rtrace) = 5
    /\ \A path \in paths_of(tree, <<>>) : recalcs_of(path) = 1 /\ visits_of(path) = 1

\* C30: each pass starts from fresh default style state.  In every render
\* call the layout pass, when it runs, and the composition pass each enter the
\* root with transparency 0, no fill, no stroke and no clip, whatever the
\* Groups wrote into the defaults of the layout pass of the same call or of
\* an earlier call; a shape that no Group precedes is drawn with its own
\* style alone.
FreshDefaults == [transparency |-> 0, fill |-> None, stroke |-> None, clip |-> ClipNone]

first_drawn_unstyled ==
    \A i \in 1..Len(draws) :
        (draws[i].path = <<1>> /\ draws[i].kind \in {"Rect", "Circle", "Path"}) =>
            LET shape == node_at(tree, <<1>>)
            IN  /\ draws[i].alpha = One * (One - shape.transparency)
                /\ draws[i].fill = (IF is_some(shape.fill) THEN Some(unwrap(shape.fill).paint)
                                    ELSE None)
                /\ draws[i].stroke = shape.stroke
                /\ draws[i].clip = nanovg_clip(shape.clip)

C30_PassesStartFromFreshDefaults ==
    renders >= 1 =>
        /\ rtrace # <<>> => (rtrace[1].path = <<>> /\ rtrace[1].before = FreshDefaults)
        /\ (ltrace # <<>> /\ ~layout_panicked) =>
                /\ ltrace[Len(ltrace)].path = <<>>
                /\ ltrace[Len(ltrace)].defaults = FreshDefaults
        /\ first_drawn_unstyled

C30_Witness ==
    /\ renders = 2
    /\ error = None
    /\ ltrace # <<>>
    /\ \E i \in 1..Len(ltrace) :
            /\ ltrace[i].defaults.transparency > 0
            /\ is_some(ltrace[i].defaults.fill)
            /\ is_some(ltrace[i].defaults.stroke)
            /\ ltrace[i].defaults.clip # ClipNone
    /\ \E j \in 1..Len(rtrace) :
            /\ rtrace[j].before.transparency > 0
            /\ is_some(rtrace[j].before.fill)
            /\ rtrace[j].before.clip # ClipNone
    /\ rtrace[1].before = FreshDefaults
    /\ ltrace[Len(ltrace)].defaults = FreshDefaults
    /\ \E i \in 1..Len(draws) : draws[i].path = <<1>> /\ draws[i].fill = None

\* C31: render on a NanovgRender without a context returns ContextIsNotInit
\* and runs neither pass: the tree, the traces, the draw instructions and the
\* context are as they were, and while there is no context the tree is the
\* one the producer built and nothing has been drawn.  init on a NanovgRender
\* that has a context keeps that context and returns Ok.
render_called == result'.op = "render" /\ (renders' # renders \/ refused' # refused)

C31_Step ==
    /\ (context = None /\ render_called) =>
            /\ result' = CallResult("render", "ContextIsNotInit")
            /\ UNCHANGED <<tree, passes, renders, ltrace, rtrace, draws, events, error,
                           context>>
            /\ tree' = declared
            /\ draws' = <<>>
    /\ (is_some(context) /\ inits' = inits + 1) =>
            /\ context' = context
            /\ result' = CallResult("init", "Ok")

C31_RenderWithoutContextInitKeepsContext == [][C31_Step]_vars

C31_Witness ==
    /\ context = Some(1)
    /\ inits = 2
    /\ result = CallResult("init", "Ok")
    /\ refused >= 1
    /\ renders >= 1
    /\ draws # <<>>
    /\ tree # declared

\* C32: a Comp initialised with init has its view_node after every input
\* call; when Node::input reported a change the view_node is a new view of the
\* model as the call left it, resolved with the Comp's defaults; Comp::input
\* returns false for every event, also when the view was rebuilt; on a Comp
\* that was never initialised input returns false and changes nothing.
input_returned == comp_last.op = "input" /\ ~comp_last.panic

C32_ViewNodePutBackInputFalse ==
    /\ comp.inputer => is_some(comp.view_node)
    /\ comp_last.op = "input" =>
        /\ ~comp_last.panic
        /\ comp_last.ret = Some(FALSE)
        /\ (comp_last.before.inputer /\ comp_last.changed) =>
                /\ unwrap(comp.view_node).of = unwrap(comp.model)
                /\ unwrap(comp.view_node).resolved
                /\ unwrap(comp.view_node).defaults = comp.defaults
        /\ ~comp_last.before.inputer => comp = comp_last.before

C32_Witness ==
    /\ comp_calls = MaxCompCalls
    /\ input_returned
    /\ comp_last.changed
    /\ comp_last.before.inputer
    /\ comp_last.ret = Some(FALSE)
    /\ is_some(comp.view_node)
    /\ unwrap(comp.view_node) # unwrap(comp_last.before.view_node)
    /\ unwrap(comp.view_node).defaults = Some("d2")
    /\ unwrap(comp.model) # unwrap(comp_last.before.model)

C32_WitnessNeverInitialised ==
    /\ comp_calls >= 2
    /\ input_returned
    /\ ~comp.inputer
    /\ comp = CompDefault

====
